---- MODULE Spec2Model ----
(***************************************************************************)
(* A model of the recipe parser (backend/app): the extraction orchestrator *)
(* RecipeService.parse_recipe_hybrid with its three strategies, the        *)
(* completeness gates, the structured-data candidate selection and the     *)
(* instruction segmenter.                                                  *)
(*                                                                         *)
(* Specifications:                                                         *)
(*   Spec      one call of parse_recipe_hybrid, one step per collaborator  *)
(*             call (fetch, fallback-image scan, the three strategies)     *)
(*   SpecGate  the completeness gates applied to one recipe                *)
(*   SpecSel   the two candidate selections applied to one candidate list  *)
(*   SpecSeg   the instruction segmenter applied to one raw input          *)
(*   SpecImg   the fallback-image extractor applied to one page            *)
(*   SpecSrc   the source resolution applied to one structured-data item   *)
(*   SpecFrac  one conversion of a quantity to its rendering               *)
(*   SpecIng   one call of parse_ingredients_list                          *)
(*   SpecSyn   one call of normalize_raw_ingredient                        *)
(*   SpecThr   one call of parse_ingredients_list with a threshold         *)
(*   SpecCat   one call of categorize_recipe                               *)
(*   SpecLoc   the recipe locator applied to one structured-data tree      *)
(*   SpecBatch one call of categorize_recipes_batch, one step per task     *)
(*             (SpecBatchLive: with the event loop's progress)             *)
(***************************************************************************)
EXTENDS Integers, Sequences, FiniteSets, TLC

VARIABLES
    \* ---- parse_recipe_hybrid (recipe_service.py)
    pc,             \* position in parse_recipe_hybrid
    page,           \* what the fetch collaborator answers for the url
    fallback_image, \* local fallback_image
    result,         \* the Recipe returned, None while running or on error
    error,          \* the exception that left parse_recipe_hybrid
    calls,          \* history: collaborator calls made so far, in order
    outcome,        \* history: how each strategy's answer rates
    rawOut,         \* history: the answer of the last strategy, before patching
    path,           \* history: the return statement taken
    \* ---- completeness gates
    gateIn, gateOut,
    \* ---- candidate selection
    cands, selOut,
    \* ---- instruction segmenter
    raw, segOut,
    \* ---- one call of a function of the other modules: arguments and result
    callIn, callOut,
    \* ---- categorize_recipes_batch (recipe_categorizer.py)
    bpc,              \* position in categorize_recipes_batch
    recipes_arg,      \* argument recipes
    batch_size,       \* argument
    openai,           \* what the AI collaborator does for the call made for recipes[k]
    loop_i,           \* loop variable i
    batch,            \* local batch
    tasks,            \* the tasks gather scheduled for batch, with their results
    enhanced_recipes, \* local enhanced_recipes, the value returned
    events            \* history: the batches started and the pauses taken, in order

orchVars == <<pc, page, fallback_image, result, error, calls, outcome, rawOut, path>>
gateVars == <<gateIn, gateOut>>
selVars == <<cands, selOut>>
segVars == <<raw, segOut>>
callVars == <<callIn, callOut>>
batchVars == <<bpc, recipes_arg, batch_size, openai, loop_i, batch, tasks, enhanced_recipes, events>>
vars == <<orchVars, gateVars, selVars, segVars, callVars, batchVars>>

(***************************************************************************)
(* Bounds                                                                   *)
(***************************************************************************)
MaxIng == 3
MaxIns == 2
MaxCands == 2
MaxPieces == 3
MaxEntries == 2

(***************************************************************************)
(* Recipes.  A Recipe is abstracted to the fields the orchestration reads: *)
(* its title, the lengths of ingredients and instructions, and its image.  *)
(* "by" stands for the remaining fields, which carry the producing         *)
(* strategy's content and which nothing in the orchestration writes.       *)
(***************************************************************************)
None == [kind |-> "None"]
NoImage == "None"
OwnImage == "http://site/own.jpg"
OgImage == "http://site/og.jpg"

RealTitle == "Lemon Cake"
Titles == {RealTitle, "Untitled Recipe", "Could not parse recipe", "Unable to parse recipe"}

Recipe(t, i, s, img, b) ==
    [title |-> t, ni |-> i, ns |-> s, image |-> img, by |-> b]

RecipesBy(b) ==
    {Recipe(t, i, s, img, b) :
        t \in Titles, i \in 0..MaxIng, s \in 0..MaxIns, img \in {NoImage, OwnImage}}

Truthy(r) == r # None

\* mutant: "len(recipe.ingredients) > 3"
_is_complete_more_than_3(recipe) ==
    IF ~Truthy(recipe) THEN FALSE
    ELSE /\ recipe.title \notin
                {"Untitled Recipe", "Could not parse recipe", "Unable to parse recipe"}
         /\ recipe.ni > 3
         /\ recipe.ns >= 2

_is_complete(recipe) ==
    IF ~Truthy(recipe) THEN FALSE
    ELSE LET title_ok == recipe.title \notin
                 {"Untitled Recipe", "Could not parse recipe", "Unable to parse recipe"}
             ingredients_ok == recipe.ni >= 3
             instructions_ok == recipe.ns >= 2
         IN title_ok /\ ingredients_ok /\ instructions_ok

is_complete_recipe(recipe) ==
    /\ Truthy(recipe)
    /\ recipe.title \notin {"Untitled Recipe", "Could not parse recipe"}
    /\ recipe.ni >= 3
    /\ recipe.ns >= 1

is_good_enough_recipe(recipe) ==
    /\ Truthy(recipe)
    /\ recipe.title \notin {"Untitled Recipe", "Could not parse recipe"}
    /\ (recipe.ni >= 2 \/ recipe.ns >= 1)

\* mutant: "if fallback_image: recipe.image = fallback_image"
UseFallbackImage_always(recipe, fb) ==
    IF fb # NoImage THEN [recipe EXCEPT !.image = fb] ELSE recipe

\* "if not recipe.image and fallback_image: recipe.image = fallback_image"
UseFallbackImage(recipe, fb) ==
    IF recipe.image = NoImage /\ fb # NoImage
    THEN [recipe EXCEPT !.image = fb]
    ELSE recipe

(***************************************************************************)
(* Ratings used by the history variable outcome: how a strategy's answer   *)
(* rates against the completeness and good-enough thresholds               *)
(* (real title, >= 3 ingredients and >= 2 instructions; real title and     *)
(* >= 2 ingredients or >= 1 instruction).                                  *)
(***************************************************************************)
RealTitled(r) == r.title = RealTitle
RatesComplete(r) == RealTitled(r) /\ r.ni >= 3 /\ r.ns >= 2
RatesGoodEnough(r) == RealTitled(r) /\ (r.ni >= 2 \/ r.ns >= 1)

Rate(raised, r) ==
    IF raised THEN "raised"
    ELSE IF r = None THEN "nothing"
    ELSE IF RatesComplete(r) THEN "complete"
    ELSE IF RatesGoodEnough(r) THEN "good"
    ELSE "poor"

Strategies == <<"site", "structured", "ai">>
NotRun == [s \in {"site", "structured", "ai"} |-> "notrun"]

Min(S) == CHOOSE x \in S : \A y \in S : x <= y

(***************************************************************************)
(* Collaborator answers                                                     *)
(***************************************************************************)
\* requests.get + raise_for_status: the page, or a RequestException
Pages == [ok : BOOLEAN, og : {NoImage, OgImage}]

\* scrape_me(url) and the scraper's accessors: raise, or give the fields
SiteAnswers ==
    {[exc |-> TRUE, r |-> None]} \cup {[exc |-> FALSE, r |-> r] : r \in RecipesBy("site")}

\* a structured-data node converted by _convert_to_recipe:
\* title = str(get_value('name') or 'Untitled Recipe')
CandRecipes == {r \in RecipesBy("structured") : r.title \in {RealTitle, "Untitled Recipe"}}

\* the sequences over S of length at most n
SeqsUpTo(S, n) == UNION {[1..k -> S] : k \in 0..n}

CandLists == SeqsUpTo(CandRecipes, MaxCands)

\* extruct.extract + _find_recipes_in_extruct_data: raise, or the recipes found
ExtructAnswers ==
    {[exc |-> TRUE, recipes |-> <<>>]} \cup {[exc |-> FALSE, recipes |-> c] : c \in CandLists}

\* the OpenAI collaborator: no client configured, the call raises, the text
\* 'null', text that is no JSON or lacks a required field, or a recipe
AIAnswers ==
    {[kind |-> k, r |-> None] : k \in {"no_client", "raise", "null", "malformed"}}
    \cup {[kind |-> "recipe", r |-> r] : r \in RecipesBy("ai")}

(***************************************************************************)
(* The strategies.  Each gives [raised, val]: whether an exception leaves  *)
(* the function, and the value returned otherwise.                         *)
(***************************************************************************)
Returned(v) == [raised |-> FALSE, val |-> v]
Raised == [raised |-> TRUE, val |-> None]

\* raises TypeError at soup.find('meta', name='twitter:image') (find() gets
\* two values for its parameter name) whenever no og:image content is found
_extract_fallback_image(p) ==
    IF p.og # NoImage THEN Returned(p.og) ELSE Raised

\* mutant: no response.raise_for_status()
FetchNeverRaises(p) == FALSE

\* requests.get(...) / response.raise_for_status()
FetchRaises(p) == ~p.ok

\* mutant: no try / except around the scraper
_try_recipe_scrapers_unguarded(ans) ==
    IF ans.exc THEN Raised ELSE Returned(ans.r)

_try_recipe_scrapers(ans) ==
    IF ans.exc THEN Returned(None)      \* except Exception: return None
    ELSE Returned(ans.r)

\* the recipe the loops of _try_extruct_with_content settle on, before the
\* fallback image is applied
ExtructPick(recipes) ==
    LET complete == {i \in 1..Len(recipes) : _is_complete(recipes[i])}
    IN IF recipes = <<>> THEN None
       ELSE IF complete # {} THEN recipes[Min(complete)]
       ELSE recipes[1]

_try_extruct_with_content(ans, fb) ==
    IF ans.exc THEN Returned(None)      \* except Exception: return None
    ELSE LET recipe == ExtructPick(ans.recipes)
         IN IF recipe = None THEN Returned(None)
            ELSE Returned(UseFallbackImage(recipe, fb))

parse_with_ai(ans) ==
    IF ans.kind = "recipe" THEN ans.r ELSE None

_try_ai_fallback_with_content(ans, fb) ==
    LET ai_recipe == parse_with_ai(ans)
    IN IF ai_recipe # None THEN Returned(UseFallbackImage(ai_recipe, fb))
       ELSE Returned(None)

\* mutant: the sentinel built without the image found
Sentinel_without_image(fb) == Recipe("Unable to parse recipe", 1, 1, NoImage, "sentinel")

\* lines 66-74
Sentinel(fb) == Recipe("Unable to parse recipe", 1, 1, fb, "sentinel")

(***************************************************************************)
(* parse_recipe_hybrid, one action per collaborator call.  A step that     *)
(* calls a strategy also makes the completeness check that follows it and  *)
(* returns or moves on; the step of the AI strategy runs to the end of the *)
(* function (STEP 4).                                                      *)
(***************************************************************************)
\* the except clauses of parse_recipe_hybrid
except_clauses(exc) ==
    IF exc = "RequestException" THEN "HTTPException(400)"
    ELSE "HTTPException(500)"

OrchInit ==
    /\ pc = "fetch"
    /\ page \in Pages
    /\ fallback_image = NoImage
    /\ result = None
    /\ error = "none"
    /\ calls = <<>>
    /\ outcome = NotRun
    /\ rawOut = None
    /\ path = "running"

OrchIdle ==
    /\ pc = "idle"
    /\ page = [ok |-> FALSE, og |-> NoImage]
    /\ fallback_image = NoImage
    /\ result = None
    /\ error = "none"
    /\ calls = <<>>
    /\ outcome = NotRun
    /\ rawOut = None
    /\ path = "running"

Fail(exc) ==
    /\ pc' = "done"
    /\ error' = except_clauses(exc)
    /\ path' = "raise"
    /\ UNCHANGED <<result, rawOut>>

Return(recipe, strategyOut, how) ==
    /\ pc' = "done"
    /\ result' = recipe
    /\ rawOut' = strategyOut
    /\ path' = how
    /\ UNCHANGED error

Continue(next) ==
    /\ pc' = next
    /\ UNCHANGED <<result, rawOut, path, error>>

\* lines 25-27
Fetch ==
    /\ pc = "fetch"
    /\ calls' = Append(calls, "fetch")
    /\ IF FetchRaises(page) THEN Fail("RequestException") ELSE Continue("scan")
    /\ UNCHANGED <<page, fallback_image, outcome>>
    /\ UNCHANGED <<gateVars, selVars, segVars, callVars, batchVars>>

\* lines 29-30
Scan ==
    /\ pc = "scan"
    /\ calls' = Append(calls, "scan")
    /\ LET found == _extract_fallback_image(page)
       IN IF found.raised
          THEN Fail("TypeError") /\ UNCHANGED fallback_image
          ELSE Continue("site") /\ fallback_image' = found.val
    /\ UNCHANGED <<page, outcome>>
    /\ UNCHANGED <<gateVars, selVars, segVars, callVars, batchVars>>

\* lines 33-44
Step1 ==
    /\ pc = "site"
    /\ calls' = Append(calls, "site")
    /\ \E ans \in SiteAnswers :
          LET got == _try_recipe_scrapers(ans)
              recipe == got.val
          IN /\ outcome' = [outcome EXCEPT !["site"] = Rate(ans.exc, ans.r)]
             /\ IF got.raised THEN Fail("Exception")
                ELSE IF Truthy(recipe) /\ _is_complete(recipe)
                THEN Return(UseFallbackImage(recipe, fallback_image), ans.r, "site")
                ELSE Continue("structured")
    /\ UNCHANGED <<page, fallback_image>>
    /\ UNCHANGED <<gateVars, selVars, segVars, callVars, batchVars>>

\* lines 46-53
Step2 ==
    /\ pc = "structured"
    /\ calls' = Append(calls, "structured")
    /\ \E ans \in ExtructAnswers :
          LET got == _try_extruct_with_content(ans, fallback_image)
              recipe == got.val
          IN /\ outcome' = [outcome EXCEPT
                               !["structured"] = Rate(ans.exc, ExtructPick(ans.recipes))]
             /\ IF got.raised THEN Fail("Exception")
                ELSE IF Truthy(recipe) /\ _is_complete(recipe)
                THEN Return(recipe, ExtructPick(ans.recipes), "structured")
                ELSE Continue("ai")
    /\ UNCHANGED <<page, fallback_image>>
    /\ UNCHANGED <<gateVars, selVars, segVars, callVars, batchVars>>

\* lines 55-77
Step3 ==
    /\ pc = "ai"
    /\ calls' = Append(calls, "ai")
    /\ \E ans \in AIAnswers :
          LET got == _try_ai_fallback_with_content(ans, fallback_image)
              recipe == got.val
          IN /\ outcome' = [outcome EXCEPT !["ai"] = Rate(ans.kind = "raise", ans.r)]
             /\ IF got.raised THEN Fail("Exception")
                ELSE IF Truthy(recipe) /\ _is_complete(recipe)
                THEN Return(recipe, ans.r, "ai")
                \* STEP 4: Return best attempt or graceful failure
                ELSE IF Truthy(recipe) /\ recipe.title # "Could not parse recipe"
                THEN Return(recipe, ans.r, "best attempt")
                ELSE Return(Sentinel(fallback_image), None, "sentinel")
    /\ UNCHANGED <<page, fallback_image>>
    /\ UNCHANGED <<gateVars, selVars, segVars, callVars, batchVars>>

(***************************************************************************)
(* The completeness gates, applied to one recipe.                          *)
(***************************************************************************)
GateInit == gateIn \in RecipesBy("any") /\ gateOut = None
GateIdle == gateIn = None /\ gateOut = None

Judge ==
    /\ gateOut = None
    /\ gateOut' = [service |-> _is_complete(gateIn),
                   converter |-> is_complete_recipe(gateIn),
                   good_enough |-> is_good_enough_recipe(gateIn)]
    /\ UNCHANGED gateIn
    /\ UNCHANGED <<orchVars, selVars, segVars, callVars, batchVars>>

(***************************************************************************)
(* The selection among the recipe candidates of a page's structured data,  *)
(* in its two implementations, applied to one candidate list.              *)
(***************************************************************************)
\* ExtructParser._select_best_recipe
_select_best_recipe(recipes) ==
    LET complete == {i \in 1..Len(recipes) : is_complete_recipe(recipes[i])}
        good == {i \in 1..Len(recipes) : is_good_enough_recipe(recipes[i])}
    IN IF complete # {} THEN recipes[Min(complete)]
       ELSE IF good # {} THEN recipes[Min(good)]
       ELSE IF recipes # <<>> THEN recipes[1]
       ELSE None

SelInit == cands \in CandLists /\ selOut = None
SelIdle == cands = <<>> /\ selOut = None

Select ==
    /\ selOut = None
    /\ selOut' = [parser |-> _select_best_recipe(cands),
                  service |-> _try_extruct_with_content(
                                  [exc |-> FALSE, recipes |-> cands], NoImage).val]
    /\ UNCHANGED cands
    /\ UNCHANGED <<orchVars, gateVars, segVars, callVars, batchVars>>

(***************************************************************************)
(* The instruction segmenter (processors/instruction_processor.py).  A     *)
(* Python str is a sequence of one-character strings.                      *)
(***************************************************************************)
Digits == {"0", "1", "2", "3", "4", "5", "6", "7", "8", "9"}
Letters ==
    {"a", "b", "c", "d", "e", "f", "g", "h", "i", "j", "k", "l", "m",
     "n", "o", "p", "q", "r", "s", "t", "u", "v", "w", "x", "y", "z",
     "A", "B", "C", "D", "E", "F", "G", "H", "I", "J", "K", "L", "M",
     "N", "O", "P", "Q", "R", "S", "T", "U", "V", "W", "X", "Y", "Z"}
Whitespace == {" ", "\n", "\t", "\r"}

\* \d and \w of the re module
IsDigit(c) == c \in Digits
IsWord(c) == c \in Letters \cup Digits \cup {"_"}

\* str.strip(): from the first to the last character that is no whitespace
strip(s) ==
    LET solid(i) == s[i] \notin Whitespace
    IN IF \A i \in 1..Len(s) : ~solid(i) THEN <<>>
       ELSE LET first == CHOOSE i \in 1..Len(s) :
                             solid(i) /\ \A k \in 1..(i - 1) : ~solid(k)
                last == CHOOSE j \in 1..Len(s) :
                            solid(j) /\ \A k \in (j + 1)..Len(s) : ~solid(k)
            IN SubSeq(s, first, last)

\* the literal lit stands in s from index i on
StartsAt(s, i, lit) ==
    /\ i + Len(lit) - 1 <= Len(s)
    /\ \A k \in 1..Len(lit) : s[i + k - 1] = lit[k]

\* "lit in s"
Contains(s, lit) == \E i \in 1..(Len(s) - Len(lit) + 1) : StartsAt(s, i, lit)

\* \b between s[e] and s[e + 1]
WordBoundary(s, e) ==
    LET before == e >= 1 /\ e <= Len(s) /\ IsWord(s[e])
        after == e + 1 >= 1 /\ e + 1 <= Len(s) /\ IsWord(s[e + 1])
    IN before # after

RECURSIVE Flatten(_)
Flatten(seqs) == IF seqs = <<>> THEN <<>> ELSE Head(seqs) \o Flatten(Tail(seqs))

ToPrep ==
    <<"T", "o", " ", "P", "r", "e", "p">>

ToCook ==
    <<"T", "o", " ", "C", "o", "o", "k">>

ToServe ==
    <<"T", "o", " ", "S", "e", "r", "v", "e">>

ToFinish ==
    <<"T", "o", " ", "F", "i", "n", "i", "s", "h">>

NextWord ==
    <<"N", "e", "x", "t">>

ThenWord ==
    <<"T", "h", "e", "n">>

MeanwhileWord ==
    <<"M", "e", "a", "n", "w", "h", "i", "l", "e">>

StepSpace ==
    <<"S", "t", "e", "p", " ">>

Lookahead(lit) == [kind |-> "word", lit |-> lit]

\* InstructionProcessor._split_concatenated_instructions: split_patterns
split_patterns ==
    <<[kind |-> "blank", lit |-> <<>>],      \* \n\n+
      Lookahead(ToPrep),                     \* (?=To Prep\b)
      Lookahead(ToCook),
      Lookahead(ToServe),
      Lookahead(ToFinish),
      Lookahead(NextWord),
      Lookahead(ThenWord),
      Lookahead(MeanwhileWord),
      [kind |-> "ordinal", lit |-> <<>>],    \* (?=\d+\.)
      [kind |-> "step", lit |-> <<>>]>>      \* (?=Step \d+)

\* the lookahead of pattern pat succeeds in s at index i
MatchAt(pat, s, i) ==
    CASE pat.kind = "word" ->
            StartsAt(s, i, pat.lit) /\ WordBoundary(s, i + Len(pat.lit) - 1)
      [] pat.kind = "ordinal" ->
            /\ IsDigit(s[i])
            /\ LET j == Min({k \in i..Len(s) : k = Len(s) \/ ~IsDigit(s[k + 1])})
               IN j < Len(s) /\ s[j + 1] = "."
      [] pat.kind = "step" ->
            StartsAt(s, i, StepSpace) /\ i + 5 <= Len(s) /\ IsDigit(s[i + 5])
      [] OTHER -> FALSE

\* the parts of s from index b on, cut before each index of rest
RECURSIVE PartsFrom(_, _, _)
PartsFrom(s, b, rest) ==
    IF rest = {} THEN <<SubSeq(s, b, Len(s))>>
    ELSE LET c == Min(rest)
         IN <<SubSeq(s, b, c - 1)>> \o PartsFrom(s, c, rest \ {c})

\* the maximal runs of two or more newlines: where each starts and ends
BlankRunStarts(s) ==
    {i \in 1..(Len(s) - 1) : s[i] = "\n" /\ s[i + 1] = "\n" /\ (i = 1 \/ s[i - 1] # "\n")}
BlankRunEnd(s, i) == Min({k \in i..Len(s) : k = Len(s) \/ s[k + 1] # "\n"})

\* re.split(r'\n\n+', s): the parts of s from index b on, between the runs
RECURSIVE SplitBlank(_, _, _)
SplitBlank(s, b, starts) ==
    IF starts = {} THEN <<SubSeq(s, b, Len(s))>>
    ELSE LET i == Min(starts)
         IN <<SubSeq(s, b, i - 1)>> \o SplitBlank(s, BlankRunEnd(s, i) + 1, starts \ {i})

\* re.split(pattern, instruction)
re_split(pat, s) ==
    IF pat.kind = "blank" THEN SplitBlank(s, 1, BlankRunStarts(s))
    ELSE PartsFrom(s, 1, {i \in 1..Len(s) : MatchAt(pat, s, i)})

\* [part.strip() for part in parts if part.strip()]
StrippedParts(parts) ==
    LET stripped == [i \in 1..Len(parts) |-> strip(parts[i])]
        NonEmpty(p) == p # <<>>
    IN SelectSeq(stripped, NonEmpty)

\* one round of "for pattern in split_patterns"
ApplyPattern(pat, instructions) ==
    Flatten([i \in 1..Len(instructions) |-> StrippedParts(re_split(pat, instructions[i]))])

RECURSIVE ApplyPatterns(_, _)
ApplyPatterns(patterns, instructions) ==
    IF patterns = <<>> THEN instructions
    ELSE ApplyPatterns(Tail(patterns), ApplyPattern(Head(patterns), instructions))

\* the fragments longer than floor characters once stripped
Substantial(instructions, floor) ==
    LET stripped == [i \in 1..Len(instructions) |-> strip(instructions[i])]
        Long(p) == Len(p) > floor
    IN SelectSeq(stripped, Long)

\* mutant: "if len(instruction) > 10"
_split_concatenated_instructions_floor_10(text) ==
    LET instructions == ApplyPatterns(split_patterns, <<text>>)
        cleaned_instructions == Substantial(instructions, 10)
    IN IF cleaned_instructions # <<>> THEN cleaned_instructions ELSE <<text>>

_split_concatenated_instructions(text) ==
    LET instructions == ApplyPatterns(split_patterns, <<text>>)
        cleaned_instructions == Substantial(instructions, 20)
    IN IF cleaned_instructions # <<>> THEN cleaned_instructions ELSE <<text>>

step_indicators ==
    <<<<"T", "o", " ", "P", "r", "e", "p">>,
      <<"T", "o", " ", "C", "o", "o", "k">>,
      <<"T", "o", " ", "S", "e", "r", "v", "e">>,
      <<"T", "o", " ", "F", "i", "n", "i", "s", "h">>,
      <<"S", "t", "e", "p", " ", "1">>,
      <<"S", "t", "e", "p", " ", "2">>,
      <<"S", "t", "e", "p", " ", "3">>,
      <<"H", "e", "a", "t", " ", "s", "o", "m", "e">>,
      <<"N", "e", "x", "t">>,
      <<"T", "h", "e", "n">>,
      <<"W", "h", "e", "n">>,
      <<"A", "f", "t", "e", "r">>,
      <<"M", "e", "a", "n", "w", "h", "i", "l", "e">>,
      <<"1", ".">>,
      <<"2", ".">>,
      <<"3", ".">>,
      <<"4", ".">>,
      <<"5", ".">>,
      <<"I", "n", " ", "a">>,
      <<"A", "d", "d", " ", "t", "h", "e">>,
      <<"R", "e", "m", "o", "v", "e", " ", "f", "r", "o", "m">>>>

_looks_like_concatenated_steps(text) ==
    LET found_indicators ==
            Cardinality({k \in 1..Len(step_indicators) : Contains(text, step_indicators[k])})
    IN found_indicators >= 2 \/ Len(text) > 500

\* "{'@type': 'HowToStep'}" (22 characters, 22 trimmed)
DictRepr ==
    <<"{", "'", "@", "t", "y", "p", "e", "'", ":", " ", "'", "H", "o", "w", "T", "o", "S",
      "t", "e", "p", "'", "}">>

\* instr.get('text', instr.get('name', str(instr))), or str(instr)
EntryText(instr) ==
    IF instr.kind = "dict"
    THEN IF "text" \in instr.keys THEN instr.text
         ELSE IF "name" \in instr.keys THEN instr.name
         ELSE DictRepr
    ELSE instr.text

\* the steps one list entry adds to instructions
EntrySteps(instr) ==
    LET text == EntryText(instr)
    IN IF text # <<>> /\ Len(strip(text)) > 5
       THEN IF _looks_like_concatenated_steps(text)
            THEN _split_concatenated_instructions(text)
            ELSE <<strip(text)>>
       ELSE <<>>

\* raw_instructions is [kind |-> "str", parts] (the string is the parts joined)
\* or [kind |-> "list", items]
RawText(r) == Flatten(r.parts)

process_instructions(raw_instructions) ==
    LET instructions ==
            IF raw_instructions.kind = "str"
            THEN _split_concatenated_instructions(RawText(raw_instructions))
            ELSE IF raw_instructions.kind = "list"
            THEN Flatten([i \in 1..Len(raw_instructions.items) |->
                              EntrySteps(raw_instructions.items[i])])
            ELSE <<>>
    IN Substantial(instructions, 10)

(***************************************************************************)
(* Raw inputs of the segmenter: strings joined from at most MaxPieces      *)
(* pieces, and lists of at most MaxEntries entries.                        *)
(***************************************************************************)
\* '1. Heat oil. ' (13 characters, 12 trimmed)
Short1 ==
    <<"1", ".", " ", "H", "e", "a", "t", " ", "o", "i", "l", ".", " ">>

\* '2. Add onions. ' (15 characters, 14 trimmed)
Short2 ==
    <<"2", ".", " ", "A", "d", "d", " ", "o", "n", "i", "o", "n", "s", ".", " ">>

\* '3. Serve.' (9 characters, 9 trimmed)
Short3 ==
    <<"3", ".", " ", "S", "e", "r", "v", "e", ".">>

\* '1. Warm the oil in a wide pan. ' (31 characters, 30 trimmed)
Long1 ==
    <<"1", ".", " ", "W", "a", "r", "m", " ", "t", "h", "e", " ", "o", "i", "l", " ", "i",
      "n", " ", "a", " ", "w", "i", "d", "e", " ", "p", "a", "n", ".", " ">>

\* '2. Stir the onions until soft. ' (31 characters, 30 trimmed)
Long2 ==
    <<"2", ".", " ", "S", "t", "i", "r", " ", "t", "h", "e", " ", "o", "n", "i", "o", "n",
      "s", " ", "u", "n", "t", "i", "l", " ", "s", "o", "f", "t", ".", " ">>

\* '3. Serve at once with rice.' (27 characters, 27 trimmed)
Long3 ==
    <<"3", ".", " ", "S", "e", "r", "v", "e", " ", "a", "t", " ", "o", "n", "c", "e", " ",
      "w", "i", "t", "h", " ", "r", "i", "c", "e", ".">>

\* 'Stir well.' (10 characters, 10 trimmed)
StirWell ==
    <<"S", "t", "i", "r", " ", "w", "e", "l", "l", ".">>

\* 'Mix.' (4 characters, 4 trimmed)
Mix ==
    <<"M", "i", "x", ".">>

\* 'Whisk eggs!' (11 characters, 11 trimmed)
WhiskEggs ==
    <<"W", "h", "i", "s", "k", " ", "e", "g", "g", "s", "!">>

\* '\n\n' (2 characters, 0 trimmed)
BlankLines ==
    <<"\n", "\n">>

\* 'Then simmer for ten minutes more. ' (34 characters, 33 trimmed)
ThenSimmer ==
    <<"T", "h", "e", "n", " ", "s", "i", "m", "m", "e", "r", " ", "f", "o", "r", " ", "t",
      "e", "n", " ", "m", "i", "n", "u", "t", "e", "s", " ", "m", "o", "r", "e", ".", " ">>

\* '1. Heat oil. 2. Add onions. 3. Serve.' (37 characters, 37 trimmed)
Example ==
    <<"1", ".", " ", "H", "e", "a", "t", " ", "o", "i", "l", ".", " ", "2", ".", " ", "A",
      "d", "d", " ", "o", "n", "i", "o", "n", "s", ".", " ", "3", ".", " ", "S", "e", "r",
      "v", "e", ".">>

Pieces == {Short1, Short2, Short3, Long1, Long2, Long3, StirWell, Mix, BlankLines, ThenSimmer}

StrEntry(t) == [kind |-> "str", keys |-> {}, text |-> t, name |-> <<>>]
DictEntry(ks, t, n) == [kind |-> "dict", keys |-> ks, text |-> t, name |-> n]

Entries ==
    {StrEntry(t) : t \in {Mix, StirWell, WhiskEggs, Long2, Example, Long1 \o Long2}}
    \cup {DictEntry({"text"}, StirWell, <<>>), DictEntry({"name"}, <<>>, WhiskEggs),
          DictEntry({"text", "name"}, Long3, Mix), DictEntry({}, <<>>, <<>>)}

RawInputs ==
    {[kind |-> "str", parts |-> p] : p \in SeqsUpTo(Pieces, MaxPieces)}
    \cup {[kind |-> "list", items |-> e] : e \in SeqsUpTo(Entries, MaxEntries)}

SegInit == raw \in RawInputs /\ segOut = [done |-> FALSE, steps |-> <<>>]
SegIdle == raw = None /\ segOut = [done |-> FALSE, steps |-> <<>>]

Segment ==
    /\ ~segOut.done
    /\ segOut' = [done |-> TRUE, steps |-> process_instructions(raw)]
    /\ UNCHANGED raw
    /\ UNCHANGED <<orchVars, gateVars, selVars, callVars, batchVars>>

(***************************************************************************)
(* The fallback-image scan (recipe_service.py _extract_fallback_image,     *)
(* processors/image_extractor.py).  A soup is abstracted to the content of *)
(* its image meta tags, whether it has a main-content region (main,        *)
(* article) and the img tags of that region in document order.             *)
(***************************************************************************)
MaxImgs == 2

TwImage == "http://site/twitter.jpg"
SchemaImage == "http://site/schema.jpg"
PlainSrc == "http://site/a.jpg"
KeywordSrc == "http://site/food.jpg"

\* an img tag: its src (or data-src), whether width and height are given and
\* at least 300 x 200, whether alt holds one of the keywords
Imgs == [src : {NoImage, PlainSrc, KeywordSrc}, large : BOOLEAN, alt_keyword : BOOLEAN]

Soups ==
    [og : {NoImage, OgImage}, twitter : {NoImage, TwImage}, schema : {NoImage, SchemaImage},
     main : BOOLEAN, images : SeqsUpTo(Imgs, MaxImgs)]

\* soup.find('meta', name='twitter:image'): name is the first parameter of
\* find(), which 'meta' already fills, so the call raises TypeError before
\* the document is searched
find_meta_twitter(soup) == Raised

\* ImageExtractor.extract_og_image
extract_og_image(soup) ==
    IF soup.og # NoImage THEN Returned(soup.og)
    ELSE LET twitter_image == find_meta_twitter(soup)
         IN IF twitter_image.raised THEN Raised
            ELSE Returned(twitter_image.val)

\* ImageExtractor._is_recipe_image
_is_recipe_image(img) ==
    img.large \/ img.alt_keyword \/ img.src = KeywordSrc

\* for img in images: if src: ... return src
FirstRecipeImage(images) ==
    LET hits == {k \in 1..Len(images) :
                     images[k].src # NoImage /\ _is_recipe_image(images[k])}
    IN IF hits = {} THEN NoImage ELSE images[Min(hits)].src

\* ImageExtractor.extract_fallback_image
extract_fallback_image(soup) ==
    LET og_image == extract_og_image(soup)
    IN IF og_image.raised THEN Raised
       ELSE IF og_image.val # NoImage THEN og_image
       ELSE IF soup.schema # NoImage THEN Returned(soup.schema)
       ELSE IF soup.main THEN Returned(FirstRecipeImage(soup.images))
       ELSE Returned(NoImage)

\* one scan of a soup by each of the two implementations
ImgInit == callIn \in Soups /\ callOut = None

ScanImage ==
    /\ callOut = None
    /\ callOut' = [service |-> _extract_fallback_image(callIn),
                   extractor |-> extract_fallback_image(callIn)]
    /\ UNCHANGED callIn
    /\ UNCHANGED <<orchVars, gateVars, selVars, segVars, batchVars>>

(***************************************************************************)
(* The recipe source (processors/recipe_converter.py _extract_source).     *)
(* A structured-data value is [kind, name]: absent, a str (name is the     *)
(* string), a dict (name is its 'name', empty when it has none) or a list. *)
(***************************************************************************)
NoSource == <<>>

Uppers ==
    <<"A", "B", "C", "D", "E", "F", "G", "H", "I", "J", "K", "L", "M", "N", "O", "P",
      "Q", "R", "S", "T", "U", "V", "W", "X", "Y", "Z">>

Lowers ==
    <<"a", "b", "c", "d", "e", "f", "g", "h", "i", "j", "k", "l", "m", "n", "o", "p",
      "q", "r", "s", "t", "u", "v", "w", "x", "y", "z">>

\* str.lower() and str.isupper() of one character
LowerChar(c) ==
    IF \E k \in 1..26 : Uppers[k] = c THEN Lowers[CHOOSE k \in 1..26 : Uppers[k] = c] ELSE c
IsUpperChar(c) == \E k \in 1..26 : Uppers[k] = c

\* str.lower()
lower(s) == [i \in 1..Len(s) |-> LowerChar(s[i])]

\* str.split(): a word starts after whitespace and runs to the next whitespace
WordStarts(s) ==
    {i \in 1..Len(s) : s[i] \notin Whitespace /\ (i = 1 \/ s[i - 1] \in Whitespace)}
WordEnd(s, i) == Min({k \in i..Len(s) : k = Len(s) \/ s[k + 1] \in Whitespace})

ByIndicator ==
    <<"b", "y", " ">>

RecipeByIndicator ==
    <<"r", "e", "c", "i", "p", "e", " ", "b", "y">>

ChefIndicator ==
    <<"c", "h", "e", "f", " ">>

AuthorIndicator ==
    <<"a", "u", "t", "h", "o", "r", ":">>

CookIndicator ==
    <<"c", "o", "o", "k", ":">>

CreatedByIndicator ==
    <<"c", "r", "e", "a", "t", "e", "d", " ", "b", "y">>

person_indicators ==
    {ByIndicator, RecipeByIndicator, ChefIndicator, AuthorIndicator, CookIndicator,
     CreatedByIndicator}

org_words ==
    {<<"k", "i", "t", "c", "h", "e", "n">>,
     <<"r", "e", "c", "i", "p", "e", "s">>,
     <<"c", "o", "o", "k", "i", "n", "g">>,
     <<"f", "o", "o", "d">>,
     <<"b", "l", "o", "g">>,
     <<"e", "a", "t", "s">>,
     <<"t", "a", "s", "t", "e">>,
     <<"f", "l", "a", "v", "o", "r">>}

\* RecipeConverter._looks_like_person_name
_looks_like_person_name(name) ==
    LET name_lower == strip(lower(name))
        words == WordStarts(name)
    IN IF \E indicator \in person_indicators : Contains(name_lower, indicator) THEN TRUE
       ELSE IF /\ Cardinality(words) = 2
               /\ \A i \in words : WordEnd(name, i) - i + 1 > 1 /\ IsUpperChar(name[i])
            THEN ~\E org_word \in org_words : Contains(name_lower, org_word)
       ELSE FALSE

\* "if value:" of a structured-data value
TruthyValue(v) ==
    v.kind \in {"dict", "list"} \/ (v.kind = "str" /\ v.name # <<>>)

\* RecipeConverter._extract_source; None is NoSource
_extract_source(data) ==
    LET publisher == data.publisher
        author == data.author
        main_entity == data.mainEntityOfPage
        from_publisher ==
            IF ~TruthyValue(publisher) THEN NoSource
            ELSE IF publisher.kind = "dict" THEN publisher.name
            ELSE IF publisher.kind = "str" THEN publisher.name
            ELSE NoSource
        from_author ==
            IF ~TruthyValue(author) THEN NoSource
            ELSE IF author.kind = "dict"
            THEN IF author.name # <<>> /\ ~_looks_like_person_name(author.name)
                 THEN author.name ELSE NoSource
            ELSE IF author.kind = "str" /\ ~_looks_like_person_name(author.name)
            THEN author.name
            ELSE NoSource
        from_main_entity ==
            IF TruthyValue(main_entity) /\ main_entity.kind = "dict"
            THEN main_entity.name ELSE NoSource
    IN IF from_publisher # NoSource THEN from_publisher
       ELSE IF from_author # NoSource THEN from_author
       ELSE IF from_main_entity # NoSource THEN from_main_entity
       ELSE NoSource

\* RecipeService._convert_to_recipe: Recipe(...) is built with no source
\* argument, and Recipe.source defaults to None
_convert_to_recipe_source(data) == NoSource

\* 'Jane Doe'
JaneDoe ==
    <<"J", "a", "n", "e", " ", "D", "o", "e">>

\* 'Food Network'
FoodNetwork ==
    <<"F", "o", "o", "d", " ", "N", "e", "t", "w", "o", "r", "k">>

\* 'Recipes by Ann'
RecipesByAnn ==
    <<"R", "e", "c", "i", "p", "e", "s", " ", "b", "y", " ", "A", "n", "n">>

\* 'allrecipes'
Allrecipes ==
    <<"a", "l", "l", "r", "e", "c", "i", "p", "e", "s">>

\* "Chef Tom's Table"
ChefTomsTable ==
    <<"C", "h", "e", "f", " ", "T", "o", "m", "'", "s", " ", "T", "a", "b", "l", "e">>

SourceNames == {JaneDoe, FoodNetwork, RecipesByAnn, Allrecipes, ChefTomsTable}

SourceValues ==
    {[kind |-> k, name |-> <<>>] : k \in {"absent", "list"}}
    \cup {[kind |-> k, name |-> n] : k \in {"str", "dict"}, n \in SourceNames \cup {<<>>}}

SourceData == [publisher : SourceValues, author : SourceValues, mainEntityOfPage : SourceValues]

SrcInit == callIn \in SourceData /\ callOut = None

ResolveSource ==
    /\ callOut = None
    /\ callOut' = [converter |-> _extract_source(callIn),
                   service |-> _convert_to_recipe_source(callIn)]
    /\ UNCHANGED callIn
    /\ UNCHANGED <<orchVars, gateVars, selVars, segVars, batchVars>>

(***************************************************************************)
(* Quantities (services/ingredient_parser.py).  A str is a sequence of     *)
(* characters; the character of a vulgar fraction is written by its code   *)
(* point ("U+00BD" is the one character for one half).                     *)
(***************************************************************************)
\* UNICODE_TO_FRACTION, in the order of the dict literal
UNICODE_TO_FRACTION ==
    <<
      [glyph |-> "U+00BD", text |-> <<"1", "/", "2">>],
      [glyph |-> "U+2153", text |-> <<"1", "/", "3">>],
      [glyph |-> "U+2154", text |-> <<"2", "/", "3">>],
      [glyph |-> "U+00BC", text |-> <<"1", "/", "4">>],
      [glyph |-> "U+00BE", text |-> <<"3", "/", "4">>],
      [glyph |-> "U+2155", text |-> <<"1", "/", "5">>],
      [glyph |-> "U+2156", text |-> <<"2", "/", "5">>],
      [glyph |-> "U+2157", text |-> <<"3", "/", "5">>],
      [glyph |-> "U+2158", text |-> <<"4", "/", "5">>],
      [glyph |-> "U+2159", text |-> <<"1", "/", "6">>],
      [glyph |-> "U+215A", text |-> <<"5", "/", "6">>],
      [glyph |-> "U+215B", text |-> <<"1", "/", "8">>],
      [glyph |-> "U+215C", text |-> <<"3", "/", "8">>],
      [glyph |-> "U+215D", text |-> <<"5", "/", "8">>],
      [glyph |-> "U+215E", text |-> <<"7", "/", "8">>]>>

\* mutant: the dict built as {k: v}, keyed by the character, so that no
\* text n/d is a key
FRACTION_TO_UNICODE_unreversed(key, default) ==
    LET items == {k \in 1..Len(UNICODE_TO_FRACTION) : <<UNICODE_TO_FRACTION[k].glyph>> = key}
    IN IF items = {} THEN default
       ELSE UNICODE_TO_FRACTION[CHOOSE k \in items : \A j \in items : j <= k].text

\* FRACTION_TO_UNICODE = {v: k for k, v in UNICODE_TO_FRACTION.items()},
\* read with .get(key, default): a later item overwrites an earlier one
FRACTION_TO_UNICODE(key, default) ==
    LET items == {k \in 1..Len(UNICODE_TO_FRACTION) : UNICODE_TO_FRACTION[k].text = key}
    IN IF items = {} THEN default
       ELSE <<UNICODE_TO_FRACTION[CHOOSE k \in items : \A j \in items : j <= k].glyph>>

DigitSeq == <<"0", "1", "2", "3", "4", "5", "6", "7", "8", "9">>
DigitVal(c) == (CHOOSE k \in 1..10 : DigitSeq[k] = c) - 1
IsDigits(s) == s # <<>> /\ \A i \in 1..Len(s) : IsDigit(s[i])

\* int(s) of a string of digits, and str(n) of an int n >= 0
RECURSIVE StrToInt(_)
StrToInt(s) ==
    IF s = <<>> THEN 0
    ELSE 10 * StrToInt(SubSeq(s, 1, Len(s) - 1)) + DigitVal(s[Len(s)])

RECURSIVE IntToStr(_)
IntToStr(n) ==
    IF n < 10 THEN <<DigitSeq[n + 1]>>
    ELSE IntToStr(n \div 10) \o <<DigitSeq[(n % 10) + 1]>>

RECURSIVE GCD(_, _)
GCD(a, b) == IF b = 0 THEN a ELSE GCD(b, a % b)

RECURSIVE Pow10(_)
Pow10(k) == IF k = 0 THEN 1 ELSE 10 * Pow10(k - 1)

\* fractions.Fraction(numerator, denominator), in lowest terms
Fraction(n, d) ==
    LET g == GCD(n, d) IN [ok |-> TRUE, num |-> n \div g, den |-> d \div g]

\* ValueError or ZeroDivisionError
NotANumber == [ok |-> FALSE, num |-> 0, den |-> 1]

\* fractions.Fraction(s) of an unsigned str: 'n', 'n/d' or a decimal
\* 'n.m', surrounded by whitespace or not; any other str raises ValueError
\* and a zero denominator raises ZeroDivisionError
FractionOfStripped(t) ==
    LET slashes == {i \in 1..Len(t) : t[i] = "/"}
        dots == {i \in 1..Len(t) : t[i] = "."}
    IN IF IsDigits(t) THEN Fraction(StrToInt(t), 1)
       ELSE IF Cardinality(slashes) = 1 /\ dots = {}
       THEN LET p == CHOOSE i \in slashes : TRUE
                num == SubSeq(t, 1, p - 1)
                denom == SubSeq(t, p + 1, Len(t))
            IN IF IsDigits(num) /\ IsDigits(denom)
               THEN IF StrToInt(denom) = 0 THEN NotANumber
                    ELSE Fraction(StrToInt(num), StrToInt(denom))
               ELSE NotANumber
       ELSE IF Cardinality(dots) = 1 /\ slashes = {}
       THEN LET p == CHOOSE i \in dots : TRUE
                whole == SubSeq(t, 1, p - 1)
                decimal == SubSeq(t, p + 1, Len(t))
            IN IF /\ \A i \in 1..Len(whole) : IsDigit(whole[i])
                  /\ \A i \in 1..Len(decimal) : IsDigit(decimal[i])
                  /\ (whole # <<>> \/ decimal # <<>>)
               THEN Fraction(StrToInt(whole \o decimal), Pow10(Len(decimal)))
               ELSE NotANumber
       ELSE NotANumber

FractionOfStr(s) == FractionOfStripped(strip(s))

\* str(frac)
StrOfFraction(frac) ==
    IF frac.den = 1 THEN IntToStr(frac.num)
    ELSE IntToStr(frac.num) \o <<"/">> \o IntToStr(frac.den)

\* text.replace(old, new) for a one-character old
replace(text, old, new) ==
    IF \A i \in 1..Len(text) : text[i] # old THEN text
    ELSE Flatten([i \in 1..Len(text) |-> IF text[i] = old THEN new ELSE <<text[i]>>])

RECURSIVE ReplaceFractions(_, _)
ReplaceFractions(text, k) ==
    IF k > Len(UNICODE_TO_FRACTION) THEN text
    ELSE ReplaceFractions(
             replace(text, UNICODE_TO_FRACTION[k].glyph, UNICODE_TO_FRACTION[k].text), k + 1)

\* re.sub(r'(\d+/\d+)-', r'\1 ', text): a hyphen that follows digits, a
\* slash and digits becomes a space
HyphenAfterFraction(text, i) ==
    /\ text[i] = "-"
    /\ i > 3
    /\ IsDigit(text[i - 1])
    /\ LET first == CHOOSE k \in 1..(i - 1) :
                    /\ \A m \in k..(i - 1) : IsDigit(text[m])
                    /\ (k = 1 \/ ~IsDigit(text[k - 1]))
       IN first > 2 /\ text[first - 1] = "/" /\ IsDigit(text[first - 2])

normalize_fractions_for_parsing(text) ==
    LET replaced == ReplaceFractions(text, 1)
    IN [i \in 1..Len(replaced) |->
           IF HyphenAfterFraction(replaced, i) THEN " " ELSE replaced[i]]


\* Fraction(float(s)).limit_denominator() of a decimal str.  float(s) is the
\* double nearest to the decimal n/10^k, and limit_denominator() gives the
\* fraction of denominator at most 10^6 nearest to that double, which is
\* n/10^k itself whenever k <= 6; the decimals drawn here have k <= 2.
FractionOfFloat(s) == FractionOfStr(s)

\* lines 61-66: Fraction(float(s)) for a str with a point, Fraction(s) otherwise
FractionOfQuantity(fraction_str) ==
    IF \E i \in 1..Len(fraction_str) : fraction_str[i] = "."
    THEN FractionOfFloat(fraction_str)
    ELSE FractionOfStr(fraction_str)

\* mutant: no conversion of improper fractions to mixed numbers
Rendered_improper(frac, fraction_str) ==
    IF ~frac.ok THEN fraction_str
    ELSE FRACTION_TO_UNICODE(StrOfFraction(frac), StrOfFraction(frac))

\* lines 68-90: the rendering of frac, fraction_str itself where it is no number
Rendered(frac, fraction_str) ==
    IF ~frac.ok THEN fraction_str      \* except (ValueError, ZeroDivisionError)
    ELSE IF frac.num >= frac.den /\ frac.den # 1
    THEN LET whole_part == frac.num \div frac.den
             remainder == frac.num % frac.den
         IN IF remainder = 0 THEN IntToStr(whole_part)
            ELSE LET fractional_part == Fraction(remainder, frac.den)
                     fractional_str == StrOfFraction(fractional_part)
                     unicode_frac == FRACTION_TO_UNICODE(fractional_str, fractional_str)
                 IN IntToStr(whole_part) \o <<" ">> \o unicode_frac
    ELSE LET frac_str == StrOfFraction(frac)
         IN FRACTION_TO_UNICODE(frac_str, frac_str)

convert_to_unicode_fraction(fraction_str) ==
    IF fraction_str = <<>> THEN fraction_str
    ELSE Rendered(FractionOfQuantity(fraction_str), fraction_str)

(***************************************************************************)
(* One conversion of a quantity: a vulgar-fraction character, or the text  *)
(* 'n/d' of two positive integers, normalized and then converted.          *)
(***************************************************************************)
MaxNum == 12
MaxDen == 9

GlyphInputs ==
    {[kind |-> "glyph", n |-> 0, d |-> 1, text |-> <<UNICODE_TO_FRACTION[k].glyph>>] :
        k \in 1..Len(UNICODE_TO_FRACTION)}

RatioInputs ==
    {[kind |-> "ratio", n |-> n, d |-> d, text |-> IntToStr(n) \o <<"/">> \o IntToStr(d)] :
        n \in 1..MaxNum, d \in 2..MaxDen}

FracInit == callIn \in GlyphInputs \cup RatioInputs /\ callOut = None

ConvertFraction ==
    /\ callOut = None
    /\ LET normalized == normalize_fractions_for_parsing(callIn.text)
       IN callOut' = [normalized |-> normalized,
                      converted |-> convert_to_unicode_fraction(normalized)]
    /\ UNCHANGED callIn
    /\ UNCHANGED <<orchVars, gateVars, selVars, segVars, batchVars>>

(***************************************************************************)
(* ingredient_parser.py: structured ingredients and their consolidation.   *)
(* A confidence is written in hundredths (0.6 is 60).                      *)
(***************************************************************************)
\* None where the code holds an Optional[str]
NoValue == <<"None">>

\* "not v" for an Optional[str]
Falsy(v) == v = NoValue \/ v = <<>>

StructuredIngredient(raw_ingredient, quantity, unit, descriptors, original_text, confidence, used_fallback) ==
    [raw_ingredient |-> raw_ingredient, quantity |-> quantity, unit |-> unit,
     descriptors |-> descriptors, original_text |-> original_text,
     confidence |-> confidence, used_fallback |-> used_fallback]

CONFIDENCE_THRESHOLD == 60

RAW_INGREDIENT_CONSOLIDATION ==
    <<[name |-> <<"e", "g", "g", "s">>,
       variations |-> <<<<"e", "g", "g">>,
                       <<"e", "g", "g", "s">>,
                       <<"w", "h", "o", "l", "e", " ", "e", "g", "g">>,
                       <<"w", "h", "o", "l", "e", " ", "e", "g", "g", "s">>,
                       <<"l", "a", "r", "g", "e", " ", "e", "g", "g">>,
                       <<"l", "a", "r", "g", "e", " ", "e", "g", "g", "s">>>>],
      [name |-> <<"b", "u", "t", "t", "e", "r">>,
       variations |-> <<<<"b", "u", "t", "t", "e", "r">>,
                       <<"u", "n", "s", "a", "l", "t", "e", "d", " ", "b", "u", "t", "t", "e", "r">>,
                       <<"s", "a", "l", "t", "e", "d", " ", "b", "u", "t", "t", "e", "r">>>>],
      [name |-> <<"s", "u", "g", "a", "r">>,
       variations |-> <<<<"s", "u", "g", "a", "r">>,
                       <<"g", "r", "a", "n", "u", "l", "a", "t", "e", "d", " ", "s", "u", "g", "a", "r">>,
                       <<"w", "h", "i", "t", "e", " ", "s", "u", "g", "a", "r">>,
                       <<"c", "a", "n", "e", " ", "s", "u", "g", "a", "r">>>>],
      [name |-> <<"b", "r", "o", "w", "n", " ", "s", "u", "g", "a", "r">>,
       variations |-> <<<<"b", "r", "o", "w", "n", " ", "s", "u", "g", "a", "r">>,
                       <<"d", "a", "r", "k", " ", "b", "r", "o", "w", "n", " ", "s", "u", "g", "a", "r">>,
                       <<"l", "i", "g", "h", "t", " ", "b", "r", "o", "w", "n", " ", "s", "u", "g", "a", "r">>>>],
      [name |-> <<"s", "a", "l", "t">>,
       variations |-> <<<<"s", "a", "l", "t">>,
                       <<"k", "o", "s", "h", "e", "r", " ", "s", "a", "l", "t">>,
                       <<"s", "e", "a", " ", "s", "a", "l", "t">>,
                       <<"t", "a", "b", "l", "e", " ", "s", "a", "l", "t">>,
                       <<"f", "i", "n", "e", " ", "s", "a", "l", "t">>>>],
      [name |-> <<"o", "l", "i", "v", "e", " ", "o", "i", "l">>,
       variations |-> <<<<"o", "l", "i", "v", "e", " ", "o", "i", "l">>,
                       <<"e", "x", "t", "r", "a", " ", "v", "i", "r", "g", "i", "n", " ", "o", "l", "i", "v", "e", " ", "o", "i", "l">>,
                       <<"e", "v", "o", "o">>>>]>>

IGNORED_INGREDIENTS ==
    <<<<"w", "a", "t", "e", "r">>>>

NotAsterisk(c) == c # "*"

\* variation.lower() of every variation of every rule
LoweredVariations ==
    [k \in 1..Len(RAW_INGREDIENT_CONSOLIDATION) |->
        [v \in 1..Len(RAW_INGREDIENT_CONSOLIDATION[k].variations) |->
            lower(RAW_INGREDIENT_CONSOLIDATION[k].variations[v])]]

normalize_raw_ingredient(ingredient_name) ==
    LET name == strip(SelectSeq(strip(lower(ingredient_name)), NotAsterisk))
        rules == {k \in 1..Len(RAW_INGREDIENT_CONSOLIDATION) :
                     \E v \in 1..Len(LoweredVariations[k]) :
                         Contains(name, LoweredVariations[k][v])}
    IN IF \E i \in 1..Len(IGNORED_INGREDIENTS) : Contains(name, IGNORED_INGREDIENTS[i])
       THEN NoValue
       ELSE IF rules # {} THEN RAW_INGREDIENT_CONSOLIDATION[Min(rules)].name
       ELSE name

\* mutant: the fallback also taken at the threshold itself
should_use_fallback_at_threshold(parsed_name, original_text, confidence) ==
    confidence <= CONFIDENCE_THRESHOLD

should_use_fallback(parsed_name, original_text, confidence) ==
    confidence < CONFIDENCE_THRESHOLD

\* str.split()
RECURSIVE SplitWords(_, _)
SplitWords(s, starts) ==
    IF starts = {} THEN <<>>
    ELSE LET i == Min(starts)
         IN <<SubSeq(s, i, WordEnd(s, i))>> \o SplitWords(s, starts \ {i})

split(s) == SplitWords(s, WordStarts(s))

NotBracketOrComma(c) == c \notin {"(", ")", ","}
LongerThanOne(part) == Len(strip(part)) > 1

\* lines 215-216 and 222-223: the words of a preparation or comment text
DescriptorsOf(text) ==
    LET parts == SelectSeq(split(SelectSeq(text, NotBracketOrComma)), LongerThanOne)
    IN [k \in 1..Len(parts) |-> strip(parts[k])]

\* parse_ingredient(normalized_text) of ingredient-parser-nlp: what the
\* collaborator nlp answers for the text
parse_ingredient(nlp, normalized_text) == nlp[normalized_text]

\* lines 155-233: the record for what the collaborator answered
StructuredFrom(parsed, ingredient_text) ==
    IF parsed.exc THEN None           \* except Exception: return None
    ELSE LET has_amount == Len(parsed.amount) > 0
             raw_quantity == IF has_amount THEN parsed.amount[1].quantity ELSE NoValue
             unit == IF has_amount /\ ~Falsy(parsed.amount[1].unit)
                     THEN parsed.amount[1].unit ELSE NoValue
             quantity == IF ~Falsy(raw_quantity)
                         THEN convert_to_unicode_fraction(raw_quantity)
                         ELSE NoValue
             ingredient_name == IF parsed.name.kind = "list"
                                THEN IF Len(parsed.name.items) > 0
                                     THEN parsed.name.items[1].text
                                     ELSE NoValue
                                ELSE parsed.name.text
             name_confidence == IF parsed.name.kind = "list" /\ Len(parsed.name.items) > 0
                                THEN parsed.name.items[1].confidence
                                ELSE 100
         IN IF Falsy(ingredient_name) THEN None
            ELSE IF should_use_fallback(ingredient_name, ingredient_text, name_confidence)
            THEN StructuredIngredient(strip(ingredient_text), NoValue, NoValue, <<>>,
                                      ingredient_text, name_confidence, TRUE)
            ELSE IF Falsy(normalize_raw_ingredient(ingredient_name)) THEN None
            ELSE StructuredIngredient(
                     normalize_raw_ingredient(ingredient_name), quantity, unit,
                     DescriptorsOf(parsed.preparation) \o DescriptorsOf(parsed.comment),
                     ingredient_text, name_confidence, FALSE)

\* line 141: confidence_threshold is a parameter; lines 146-233 never read it
parse_ingredient_structured(ingredient_text, confidence_threshold, nlp) ==
    IF strip(ingredient_text) = <<>> THEN None
    ELSE StructuredFrom(parse_ingredient(nlp, normalize_fractions_for_parsing(ingredient_text)),
                        ingredient_text)

PlusSign ==
    <<" ", "+", " ">>

\* lines 261-270: the rendering of frac1 + frac2
Total(frac1, frac2, qty1, qty2) ==
    IF ~frac1.ok \/ ~frac2.ok
    THEN qty1 \o PlusSign \o qty2     \* except (ValueError, ZeroDivisionError)
    ELSE convert_to_unicode_fraction(
             StrOfFraction(Fraction(frac1.num * frac2.den + frac2.num * frac1.den,
                                    frac1.den * frac2.den)))

combine_quantities(qty1, qty2) ==
    IF Falsy(qty1) /\ Falsy(qty2) THEN NoValue
    ELSE IF Falsy(qty1) THEN qty2
    ELSE IF Falsy(qty2) THEN qty1
    ELSE Total(FractionOfStr(normalize_fractions_for_parsing(qty1)),
               FractionOfStr(normalize_fractions_for_parsing(qty2)), qty1, qty2)

can_combine_ingredients(ing1, ing2) ==
    IF ing1.raw_ingredient # ing2.raw_ingredient THEN FALSE
    ELSE IF ing1.unit = ing2.unit THEN TRUE
    ELSE ing1.unit = NoValue /\ ing2.unit = NoValue

\* the items of seq at the places in at, in order
Picked(seq, at) ==
    [n \in 1..Cardinality(at) |->
        seq[CHOOSE i \in at : Cardinality({j \in at : j < i}) = n - 1]]

\* list(dict.fromkeys(seq)): the first occurrences, in order
Unique(seq) ==
    Picked(seq, {i \in 1..Len(seq) : \A j \in 1..(i - 1) : seq[j] # seq[i]})

\* the items of seq whose key is k, in order
Keyed(seq, keys, k) ==
    Picked(seq, {i \in 1..Len(seq) : keys[i] = k})

Unitless ==
    <<"u", "n", "i", "t", "l", "e", "s", "s">>

CombinedPrefix ==
    <<"C", "o", "m", "b", "i", "n", "e", "d", ":", " ">>

RECURSIVE Join(_, _)
Join(sep, seqs) ==
    IF seqs = <<>> THEN <<>>
    ELSE IF Len(seqs) = 1 THEN seqs[1]
    ELSE seqs[1] \o sep \o Join(sep, Tail(seqs))

\* lines 349-350: the quantities of rest combined into combined_quantity, one
\* after the other
RECURSIVE CombineAll(_, _)
CombineAll(combined_quantity, rest) ==
    IF rest = <<>> THEN combined_quantity
    ELSE CombineAll(combine_quantities(combined_quantity, Head(rest).quantity), Tail(rest))

\* lines 345-367: the record that stands for a group of two or more
ConsolidatedIngredient(group) ==
    LET base_ingredient == group[1]
    IN StructuredIngredient(
           base_ingredient.raw_ingredient,
           CombineAll(base_ingredient.quantity, Tail(group)),
           base_ingredient.unit,
           Unique(Flatten([k \in 1..Len(group) |-> group[k].descriptors])),
           CombinedPrefix \o Join(<<",", " ">>, [k \in 1..Len(group) |-> group[k].original_text]),
           Min({group[k].confidence : k \in 1..Len(group)}),
           \E k \in 1..Len(group) : group[k].used_fallback)

\* mutant: one group for a name, whatever the units
consolidate_ingredient_group_any_unit(ingredient_list) ==
    IF Len(ingredient_list) <= 1 THEN ingredient_list
    ELSE <<ConsolidatedIngredient(ingredient_list)>>

consolidate_ingredient_group(ingredient_list) ==
    IF Len(ingredient_list) <= 1 THEN ingredient_list
    ELSE LET unit_keys == [k \in 1..Len(ingredient_list) |->
                              IF Falsy(ingredient_list[k].unit) THEN Unitless
                              ELSE ingredient_list[k].unit]
             unit_groups == Unique(unit_keys)
         IN [g \in 1..Len(unit_groups) |->
                LET group == Keyed(ingredient_list, unit_keys, unit_groups[g])
                IN IF Len(group) = 1 THEN group[1] ELSE ConsolidatedIngredient(group)]

IsStructured(structured) == structured # None

\* lines 309-319: the second pass, over the records of the first
SecondPass(structured) ==
    LET raw_names == [k \in 1..Len(structured) |-> structured[k].raw_ingredient]
        ingredient_map == Unique(raw_names)
    IN Flatten([g \in 1..Len(ingredient_map) |->
                   LET ingredient_list == Keyed(structured, raw_names, ingredient_map[g])
                   IN IF Len(ingredient_list) = 1 THEN ingredient_list
                      ELSE consolidate_ingredient_group(ingredient_list)])

\* lines 299-307: the first pass keeps the records of the lines that gave one
parse_ingredients_list(ingredients, confidence_threshold, nlp) ==
    SecondPass(SelectSeq([k \in 1..Len(ingredients) |->
                             parse_ingredient_structured(ingredients[k], confidence_threshold, nlp)],
                         IsStructured))

(***************************************************************************)
(* One call of parse_ingredients_list: the lines, and what the NLP         *)
(* collaborator answers for each normalized line.                          *)
(***************************************************************************)
MaxLines == 3

\* '1 cup flour'
Flour1Cup ==
    <<"1", " ", "c", "u", "p", " ", "f", "l", "o", "u", "r">>

\* '2 cups flour'
Flour2Cups ==
    <<"2", " ", "c", "u", "p", "s", " ", "f", "l", "o", "u", "r">>

\* '¾ cup milk'
MilkThreeQuarters ==
    <<"U+00BE", " ", "c", "u", "p", " ", "m", "i", "l", "k">>

\* '½ cup milk'
MilkHalf ==
    <<"U+00BD", " ", "c", "u", "p", " ", "m", "i", "l", "k">>

\* '2 large eggs'
LargeEggs ==
    <<"2", " ", "l", "a", "r", "g", "e", " ", "e", "g", "g", "s">>

\* ' eggs'
Eggs ==
    <<" ", "e", "g", "g", "s">>

\* 'salt to taste'
SaltToTaste ==
    <<"s", "a", "l", "t", " ", "t", "o", " ", "t", "a", "s", "t", "e">>

\* '1 cup water'
Water1Cup ==
    <<"1", " ", "c", "u", "p", " ", "w", "a", "t", "e", "r">>

\* '  '
BlankLine ==
    <<" ", " ">>

\* an answer of parse_ingredient: a name with its confidence, at most one amount
Named(text, confidence, amount, comment) ==
    [exc |-> FALSE,
     name |-> [kind |-> "list", items |-> <<[text |-> text, confidence |-> confidence]>>],
     amount |-> amount, preparation |-> <<>>, comment |-> comment]

Amount(quantity, unit) == <<[quantity |-> quantity, unit |-> unit]>>

\* an answer with no name
Unnamed ==
    [exc |-> FALSE, name |-> [kind |-> "list", items |-> <<>>],
     amount |-> <<>>, preparation |-> <<>>, comment |-> <<>>]

\* parse_ingredient raises
NlpRaises ==
    [exc |-> TRUE, name |-> [kind |-> "list", items |-> <<>>],
     amount |-> <<>>, preparation |-> <<>>, comment |-> <<>>]

\* a line with an answer the collaborator may give for it
IngredientLines ==
    {[text |-> Flour1Cup,
      answer |-> Named(<<"f", "l", "o", "u", "r">>, 90, Amount(<<"1">>, <<"c", "u", "p">>), <<>>)],
     [text |-> Flour2Cups,
      answer |-> Named(<<"f", "l", "o", "u", "r">>, 90, Amount(<<"2">>, <<"c", "u", "p", "s">>), <<>>)],
     [text |-> Flour2Cups,
      answer |-> Named(<<"f", "l", "o", "u", "r">>, 90, Amount(<<"2">>, <<"c", "u", "p">>), <<>>)],
     [text |-> MilkThreeQuarters,
      answer |-> Named(<<"m", "i", "l", "k">>, 95, Amount(<<"3", "/", "4">>, <<"c", "u", "p">>), <<>>)],
     [text |-> MilkHalf,
      answer |-> Named(<<"m", "i", "l", "k">>, 95, Amount(<<"1", "/", "2">>, <<"c", "u", "p">>), <<>>)],
     [text |-> LargeEggs,
      answer |-> Named(<<"l", "a", "r", "g", "e", " ", "e", "g", "g", "s">>, 90, Amount(<<"2">>, NoValue), <<>>)],
     [text |-> Eggs,
      answer |-> Named(<<"e", "g", "g", "s">>, 40, <<>>, <<>>)],
     [text |-> SaltToTaste,
      answer |-> Named(<<"s", "a", "l", "t">>, 59, <<>>, <<"t", "o", " ", "t", "a", "s", "t", "e">>)],
     [text |-> SaltToTaste,
      answer |-> Named(<<"s", "a", "l", "t">>, 60, <<>>, <<"t", "o", " ", "t", "a", "s", "t", "e">>)],
     [text |-> SaltToTaste,
      answer |-> Unnamed],
     [text |-> SaltToTaste,
      answer |-> NlpRaises],
     [text |-> Water1Cup,
      answer |-> Named(<<"w", "a", "t", "e", "r">>, 99, Amount(<<"1">>, <<"c", "u", "p">>), <<>>)],
     [text |-> BlankLine,
      answer |-> NlpRaises]}

\* the collaborator is a function of the text it is given
FixedCollaborator(lines) ==
    \A i, j \in 1..Len(lines) : lines[i].text = lines[j].text => lines[i].answer = lines[j].answer

IngInput(lines) ==
    LET key(k) == normalize_fractions_for_parsing(lines[k].text)
    IN [ingredients |-> [k \in 1..Len(lines) |-> lines[k].text],
        nlp |-> [t \in {key(k) : k \in 1..Len(lines)} |->
                    lines[CHOOSE k \in 1..Len(lines) : key(k) = t].answer]]

IngInputs ==
    {IngInput(lines) : lines \in {l \in SeqsUpTo(IngredientLines, MaxLines) : FixedCollaborator(l)}}

IngInit == callIn \in IngInputs /\ callOut = None

ParseIngredients ==
    /\ callOut = None
    /\ callOut' = [items |-> [k \in 1..Len(callIn.ingredients) |->
                                parse_ingredient_structured(callIn.ingredients[k], CONFIDENCE_THRESHOLD, callIn.nlp)],
                   list |-> parse_ingredients_list(callIn.ingredients, CONFIDENCE_THRESHOLD, callIn.nlp)]
    /\ UNCHANGED callIn
    /\ UNCHANGED <<orchVars, gateVars, selVars, segVars, batchVars>>

(***************************************************************************)
(* One call of parse_ingredients_list with a confidence_threshold of the   *)
(* caller's choice.                                                        *)
(***************************************************************************)
\* thresholds below, at and above the module default, in hundredths
Thresholds == {30, 50, 60, 80, 95}

\* lines whose answer names the ingredient with a confidence of 40, 59, 60, 90
ThresholdLines ==
    {line \in IngredientLines :
        /\ line.text \in {Eggs, SaltToTaste, Flour1Cup}
        /\ ~line.answer.exc
        /\ Len(line.answer.name.items) > 0}

ThrInputs ==
    {[ingredients |-> IngInput(lines).ingredients, nlp |-> IngInput(lines).nlp,
      confidence_threshold |-> t] :
        lines \in {l \in SeqsUpTo(ThresholdLines, MaxLines) : FixedCollaborator(l)},
        t \in Thresholds}

ThrInit == callIn \in ThrInputs /\ callOut = None

ParseAtThreshold ==
    /\ callOut = None
    /\ callOut' = [items |-> [k \in 1..Len(callIn.ingredients) |->
                                parse_ingredient_structured(
                                    callIn.ingredients[k], callIn.confidence_threshold, callIn.nlp)],
                   list |-> parse_ingredients_list(
                                callIn.ingredients, callIn.confidence_threshold, callIn.nlp)]
    /\ UNCHANGED callIn
    /\ UNCHANGED <<orchVars, gateVars, selVars, segVars, batchVars>>

(***************************************************************************)
(* One call of normalize_raw_ingredient: a name of the synonym table, or a *)
(* name outside it, as written, capitalized, with a footnote marker or     *)
(* with spaces around it.                                                  *)
(***************************************************************************)
\* str.capitalize() of a lower-case name
Capitalized(s) ==
    [i \in 1..Len(s) |->
        IF i = 1 /\ \E k \in 1..26 : Lowers[k] = s[i]
        THEN Uppers[CHOOSE k \in 1..26 : Lowers[k] = s[i]] ELSE s[i]]

NameForms == {"written", "capitalized", "starred", "padded"}

InForm(s, form) ==
    CASE form = "written" -> s
      [] form = "capitalized" -> Capitalized(s)
      [] form = "starred" -> s \o <<"*">>
      [] form = "padded" -> <<" ">> \o s \o <<" ">>

\* names no rule of the table lists
OtherNames ==
    {<<"f", "l", "o", "u", "r">>, <<"m", "i", "l", "k">>, <<"w", "a", "t", "e", "r">>,
     <<"r", "o", "s", "e", "w", "a", "t", "e", "r">>}

\* rule is the place of the rule the name is taken from, 0 where it is taken
\* from no rule; listed tells whether it is the rule's canonical name or one
\* of its variations
SynInputs ==
    UNION {{[ingredient_name |-> InForm(RAW_INGREDIENT_CONSOLIDATION[k].variations[v], form),
             rule |-> k, listed |-> "variation", form |-> form] :
                v \in 1..Len(RAW_INGREDIENT_CONSOLIDATION[k].variations), form \in NameForms} :
           k \in 1..Len(RAW_INGREDIENT_CONSOLIDATION)} \cup
    {[ingredient_name |-> InForm(RAW_INGREDIENT_CONSOLIDATION[k].name, form),
      rule |-> k, listed |-> "canonical", form |-> form] :
        k \in 1..Len(RAW_INGREDIENT_CONSOLIDATION), form \in NameForms} \cup
    {[ingredient_name |-> InForm(name, form), rule |-> 0, listed |-> "none", form |-> form] :
        name \in OtherNames, form \in NameForms}

SynInit == callIn \in SynInputs /\ callOut = None

NormalizeName ==
    /\ callOut = None
    /\ callOut' = [normalized |-> normalize_raw_ingredient(callIn.ingredient_name)]
    /\ UNCHANGED callIn
    /\ UNCHANGED <<orchVars, gateVars, selVars, segVars, batchVars>>

(***************************************************************************)
(* The categorizer (services/ai/recipe_categorizer.py).  The AI response   *)
(* is modelled after json.loads: whether the text decodes (at once, after  *)
(* _fix_common_json_issues, or never) and the decoded object, a function   *)
(* from the keys present to JSON values.                                   *)
(***************************************************************************)
HEALTH_TAGS ==
    <<
      \* 'vegan'
      <<"v", "e", "g", "a", "n">>,
      \* 'vegetarian'
      <<"v", "e", "g", "e", "t", "a", "r", "i", "a", "n">>,
      \* 'dairy free'
      <<"d", "a", "i", "r", "y", " ", "f", "r", "e", "e">>,
      \* 'red meat free'
      <<"r", "e", "d", " ", "m", "e", "a", "t", " ", "f", "r", "e", "e">>,
      \* 'nut free'
      <<"n", "u", "t", " ", "f", "r", "e", "e">>,
      \* 'gluten free'
      <<"g", "l", "u", "t", "e", "n", " ", "f", "r", "e", "e">>,
      \* 'paleo'
      <<"p", "a", "l", "e", "o">>,
      \* 'keto'
      <<"k", "e", "t", "o">>,
      \* 'FODMAP free'
      <<"F", "O", "D", "M", "A", "P", " ", "f", "r", "e", "e">>,
      \* 'pescatarian'
      <<"p", "e", "s", "c", "a", "t", "a", "r", "i", "a", "n">>,
      \* 'healthy'
      <<"h", "e", "a", "l", "t", "h", "y">>,
      \* 'whole30'
      <<"w", "h", "o", "l", "e", "3", "0">>
    >>

DISH_TYPES ==
    <<
      \* 'bread'
      <<"b", "r", "e", "a", "d">>,
      \* 'dessert'
      <<"d", "e", "s", "s", "e", "r", "t">>,
      \* 'pies and tarts'
      <<"p", "i", "e", "s", " ", "a", "n", "d", " ", "t", "a", "r", "t", "s">>,
      \* 'salad'
      <<"s", "a", "l", "a", "d">>,
      \* 'sandwich'
      <<"s", "a", "n", "d", "w", "i", "c", "h">>,
      \* 'seafood'
      <<"s", "e", "a", "f", "o", "o", "d">>,
      \* 'side dish'
      <<"s", "i", "d", "e", " ", "d", "i", "s", "h">>,
      \* 'main course'
      <<"m", "a", "i", "n", " ", "c", "o", "u", "r", "s", "e">>,
      \* 'soup or stew'
      <<"s", "o", "u", "p", " ", "o", "r", " ", "s", "t", "e", "w">>,
      \* 'curry'
      <<"c", "u", "r", "r", "y">>,
      \* 'special occasion'
      <<"s", "p", "e", "c", "i", "a", "l", " ", "o", "c", "c", "a", "s", "i", "o", "n">>,
      \* 'starter or appetizer'
      <<"s", "t", "a", "r", "t", "e", "r", " ", "o", "r", " ", "a", "p", "p", "e", "t",
        "i", "z", "e", "r">>,
      \* 'sweet'
      <<"s", "w", "e", "e", "t">>,
      \* 'pasta'
      <<"p", "a", "s", "t", "a">>,
      \* 'egg'
      <<"e", "g", "g">>,
      \* 'drink'
      <<"d", "r", "i", "n", "k">>,
      \* 'condiment or sauce'
      <<"c", "o", "n", "d", "i", "m", "e", "n", "t", " ", "o", "r", " ", "s", "a", "u",
        "c", "e">>,
      \* 'grilling'
      <<"g", "r", "i", "l", "l", "i", "n", "g">>,
      \* 'alcohol cocktail'
      <<"a", "l", "c", "o", "h", "o", "l", " ", "c", "o", "c", "k", "t", "a", "i", "l">>,
      \* 'biscuits and cookies'
      <<"b", "i", "s", "c", "u", "i", "t", "s", " ", "a", "n", "d", " ", "c", "o", "o",
        "k", "i", "e", "s">>,
      \* 'drinks'
      <<"d", "r", "i", "n", "k", "s">>,
      \* 'ice cream and custard'
      <<"i", "c", "e", " ", "c", "r", "e", "a", "m", " ", "a", "n", "d", " ", "c", "u",
        "s", "t", "a", "r", "d">>,
      \* 'pizza'
      <<"p", "i", "z", "z", "a">>,
      \* 'preserve'
      <<"p", "r", "e", "s", "e", "r", "v", "e">>,
      \* 'sheet pan meal'
      <<"s", "h", "e", "e", "t", " ", "p", "a", "n", " ", "m", "e", "a", "l">>,
      \* 'grain bowl'
      <<"g", "r", "a", "i", "n", " ", "b", "o", "w", "l">>,
      \* 'freezer-friendly'
      <<"f", "r", "e", "e", "z", "e", "r", "-", "f", "r", "i", "e", "n", "d", "l", "y">>
    >>

CUISINE_TYPES ==
    <<
      \* 'american'
      <<"a", "m", "e", "r", "i", "c", "a", "n">>,
      \* 'asian'
      <<"a", "s", "i", "a", "n">>,
      \* 'british'
      <<"b", "r", "i", "t", "i", "s", "h">>,
      \* 'caribbean'
      <<"c", "a", "r", "i", "b", "b", "e", "a", "n">>,
      \* 'central europe'
      <<"c", "e", "n", "t", "r", "a", "l", " ", "e", "u", "r", "o", "p", "e">>,
      \* 'chinese'
      <<"c", "h", "i", "n", "e", "s", "e">>,
      \* 'eastern europe'
      <<"e", "a", "s", "t", "e", "r", "n", " ", "e", "u", "r", "o", "p", "e">>,
      \* 'french'
      <<"f", "r", "e", "n", "c", "h">>,
      \* 'greek'
      <<"g", "r", "e", "e", "k">>,
      \* 'indian'
      <<"i", "n", "d", "i", "a", "n">>,
      \* 'italian'
      <<"i", "t", "a", "l", "i", "a", "n">>,
      \* 'japanese'
      <<"j", "a", "p", "a", "n", "e", "s", "e">>,
      \* 'korean'
      <<"k", "o", "r", "e", "a", "n">>,
      \* 'mediterranean'
      <<"m", "e", "d", "i", "t", "e", "r", "r", "a", "n", "e", "a", "n">>,
      \* 'mexican'
      <<"m", "e", "x", "i", "c", "a", "n">>,
      \* 'middle eastern'
      <<"m", "i", "d", "d", "l", "e", " ", "e", "a", "s", "t", "e", "r", "n">>,
      \* 'nordic'
      <<"n", "o", "r", "d", "i", "c">>,
      \* 'south american'
      <<"s", "o", "u", "t", "h", " ", "a", "m", "e", "r", "i", "c", "a", "n">>,
      \* 'south east asian'
      <<"s", "o", "u", "t", "h", " ", "e", "a", "s", "t", " ", "a", "s", "i", "a", "n">>,
      \* 'african'
      <<"a", "f", "r", "i", "c", "a", "n">>
    >>

MEAL_TYPES ==
    <<
      \* 'breakfast'
      <<"b", "r", "e", "a", "k", "f", "a", "s", "t">>,
      \* 'brunch'
      <<"b", "r", "u", "n", "c", "h">>,
      \* 'lunch'
      <<"l", "u", "n", "c", "h">>,
      \* 'dinner'
      <<"d", "i", "n", "n", "e", "r">>,
      \* 'snack'
      <<"s", "n", "a", "c", "k">>,
      \* 'dessert'
      <<"d", "e", "s", "s", "e", "r", "t">>
    >>

SEASONS ==
    <<
      \* 'spring'
      <<"s", "p", "r", "i", "n", "g">>,
      \* 'summer'
      <<"s", "u", "m", "m", "e", "r">>,
      \* 'winter'
      <<"w", "i", "n", "t", "e", "r">>,
      \* 'autumn'
      <<"a", "u", "t", "u", "m", "n">>
    >>

\* line 287
SummerTerms ==
    <<
      \* 'cucumber'
      <<"c", "u", "c", "u", "m", "b", "e", "r">>,
      \* 'tomato'
      <<"t", "o", "m", "a", "t", "o">>,
      \* 'gazpacho'
      <<"g", "a", "z", "p", "a", "c", "h", "o">>,
      \* 'cold soup'
      <<"c", "o", "l", "d", " ", "s", "o", "u", "p">>
    >>

\* line 290
AutumnWinterTerms ==
    <<
      \* 'pumpkin'
      <<"p", "u", "m", "p", "k", "i", "n">>,
      \* 'butternut'
      <<"b", "u", "t", "t", "e", "r", "n", "u", "t">>,
      \* 'hot chocolate'
      <<"h", "o", "t", " ", "c", "h", "o", "c", "o", "l", "a", "t", "e">>,
      \* 'stew'
      <<"s", "t", "e", "w">>
    >>

\* ' Vegan '
VeganPadded ==
    <<" ", "V", "e", "g", "a", "n", " ">>

\* 'FODMAP Free'
FodmapFree ==
    <<"F", "O", "D", "M", "A", "P", " ", "F", "r", "e", "e">>

\* 'tasty'
Tasty ==
    <<"t", "a", "s", "t", "y">>

\* 'keto'
Keto ==
    <<"k", "e", "t", "o">>

\* 'Dessert'
DessertCapital ==
    <<"D", "e", "s", "s", "e", "r", "t">>

\* 'cake'
Cake ==
    <<"c", "a", "k", "e">>

\* 'soup or stew'
SoupOrStew ==
    <<"s", "o", "u", "p", " ", "o", "r", " ", "s", "t", "e", "w">>

\* 'italian'
Italian ==
    <<"i", "t", "a", "l", "i", "a", "n">>

\* 'martian'
Martian ==
    <<"m", "a", "r", "t", "i", "a", "n">>

\* 'dinner'
Dinner ==
    <<"d", "i", "n", "n", "e", "r">>

\* 'Dinner'
DinnerCapital ==
    <<"D", "i", "n", "n", "e", "r">>

\* 'Summer'
SummerCapital ==
    <<"S", "u", "m", "m", "e", "r">>

\* 'monsoon'
Monsoon ==
    <<"m", "o", "n", "s", "o", "o", "n">>

\* 'winter'
Winter ==
    <<"w", "i", "n", "t", "e", "r">>

\* 'Cucumber Salad'
CucumberSalad ==
    <<"C", "u", "c", "u", "m", "b", "e", "r", " ", "S", "a", "l", "a", "d">>

\* 'Beef Stew'
BeefStew ==
    <<"B", "e", "e", "f", " ", "S", "t", "e", "w">>

\* 'Pancakes'
Pancakes ==
    <<"P", "a", "n", "c", "a", "k", "e", "s">>

\* 'ok'
SomeNotes ==
    <<"o", "k">>

\* 'gpt-3.5-turbo'
AI_MODEL ==
    <<"g", "p", "t", "-", "3", ".", "5", "-", "t", "u", "r", "b", "o">>

\* JSON values
JStr(s) == [kind |-> "str", s |-> s]
JNumber(n) == [kind |-> "number", n |-> n]
JNull == [kind |-> "null"]
JList(items) == [kind |-> "list", items |-> items]

\* "if data[field]" for a value that is no list (line 274)
TruthyJson(v) == (v.kind = "str" /\ v.s # <<>>) \/ (v.kind = "number" /\ v.n # 0)

\* line 265
required_fields == <<"health_tags", "dish_type", "cuisine_type", "meal_type", "season">>

\* lines 272-274
AsList(v) ==
    IF v.kind = "list" THEN v.items ELSE IF TruthyJson(v) THEN <<v>> ELSE <<>>

\* x in seq, seq.index(x)
InList(x, seq) == \E k \in 1..Len(seq) : seq[k] = x
IndexOf(seq, x) ==
    CHOOSE k \in 1..Len(seq) : seq[k] = x /\ \A j \in 1..(k - 1) : seq[j] # x

\* line 350
TagLower(tag) == strip(lower(tag.s))

\* lines 349-358, appending tag_lower instead of the original casing
Validated_lowercased(tags, valid_tags, valid_tags_lower) ==
    LET kept == SelectSeq(tags, LAMBDA tag : InList(TagLower(tag), valid_tags_lower))
    IN [k \in 1..Len(kept) |-> TagLower(kept[k])]

\* lines 349-358
Validated(tags, valid_tags, valid_tags_lower) ==
    LET kept == SelectSeq(tags, LAMBDA tag : InList(TagLower(tag), valid_tags_lower))
    IN [k \in 1..Len(kept) |-> valid_tags[IndexOf(valid_tags_lower, TagLower(kept[k]))]]

_validate_tags(tags, valid_tags) ==
    IF tags = <<>> THEN <<>>
    ELSE Validated(tags, valid_tags, [k \in 1..Len(valid_tags) |-> lower(valid_tags[k])])

\* any(term in title_lower for term in terms)
AnyTermIn(terms, title_lower) == \E k \in 1..Len(terms) : Contains(title_lower, terms[k])

\* lines 284-295
SeasonOrDefault(season, title_lower) ==
    IF season # <<>> THEN season
    ELSE IF AnyTermIn(SummerTerms, title_lower) THEN <<SEASONS[2]>>
    ELSE IF AnyTermIn(AutumnWinterTerms, title_lower) THEN <<SEASONS[4], SEASONS[3]>>
    ELSE SEASONS

\* models.py, RecipeCategorization
RecipeCategorization(health_tags, dish_type, cuisine_type, meal_type, season, confidence_notes, ai_model) ==
    [kind |-> "RecipeCategorization", health_tags |-> health_tags, dish_type |-> dish_type,
     cuisine_type |-> cuisine_type, meal_type |-> meal_type, season |-> season,
     confidence_notes |-> confidence_notes, ai_model |-> ai_model]

\* tag.lower() of a tag that is no string raises AttributeError (line 350)
AllStrings(tags) == \A k \in 1..Len(tags) : tags[k].kind = "str"

\* data.get('confidence_notes', ''), line 303
NotesOf(data) ==
    IF "confidence_notes" \notin DOMAIN data THEN <<>>
    ELSE IF data["confidence_notes"].kind = "null" THEN NoValue
    ELSE data["confidence_notes"].s

\* lines 276-315, data holding a list under every required field; the
\* exceptions (a tag that is no string, the slice of confidence_notes None at
\* line 313) end in "return None" at line 323
CategorizationOf(data, confidence_notes, recipe_title) ==
    IF \E k \in 1..Len(required_fields) : ~AllStrings(data[required_fields[k]]) THEN None
    ELSE IF confidence_notes = NoValue THEN None
    ELSE RecipeCategorization(_validate_tags(data.health_tags, HEALTH_TAGS),
                              _validate_tags(data.dish_type, DISH_TYPES),
                              _validate_tags(data.cuisine_type, CUISINE_TYPES),
                              _validate_tags(data.meal_type, MEAL_TYPES),
                              SeasonOrDefault(_validate_tags(data.season, SEASONS),
                                              lower(recipe_title)),
                              confidence_notes, AI_MODEL)

\* lines 264-274
ListsOf(data) ==
    [field \in {required_fields[k] : k \in 1..Len(required_fields)} |-> AsList(data[field])]

_parse_categorization_response(ai_response, recipe_title) ==
    IF ai_response.decodes = "never" THEN None
    ELSE IF \E k \in 1..Len(required_fields) : required_fields[k] \notin DOMAIN ai_response.data
    THEN None
    ELSE CategorizationOf(ListsOf(ai_response.data), NotesOf(ai_response.data), recipe_title)

\* ai is the collaborator: whether a client is configured and, for this
\* call, whether chat.completions.create raises or what it answers
categorize_recipe(recipe, ai) ==
    IF ~ai.client THEN None
    ELSE IF ai.raises THEN None
    ELSE _parse_categorization_response(ai.response, recipe.title)
(***************************************************************************)
(* categorize_recipe applied to one recipe title and one behaviour of the  *)
(* AI collaborator.                                                        *)
(***************************************************************************)
MaxTags == 2

Missing == [kind |-> "missing"]

\* the JSON lists of at most MaxTags strings of pool
TagLists(pool) ==
    {JList([k \in 1..Len(tags) |-> JStr(tags[k])]) : tags \in SeqsUpTo(pool, MaxTags)}

HealthValues ==
    {JList(<<JStr(VeganPadded), JStr(FodmapFree), JStr(Tasty)>>), JList(<<JStr(Tasty)>>),
     JStr(Keto), JNull, JList(<<JNumber(7)>>)}
DishValues == {JList(<<JStr(DessertCapital), JStr(Cake)>>), JStr(SoupOrStew), Missing}
CuisineValues == {JList(<<JStr(Italian)>>), JList(<<JStr(Martian)>>), JNumber(0)}
MealValues == {JList(<<JStr(Dinner), JStr(DinnerCapital)>>), JList(<<>>)}
SeasonValues == TagLists({SummerCapital, Monsoon}) \cup {JStr(Winter), JNull, Missing}
NotesValues == {JStr(SomeNotes), JNull, Missing}

\* the decoded object: the keys whose value is not Missing
DataOf(choice) == [key \in {k \in DOMAIN choice : choice[k] # Missing} |-> choice[key]]

DataChoices ==
    [health_tags : HealthValues, dish_type : DishValues, cuisine_type : CuisineValues,
     meal_type : MealValues, season : SeasonValues, confidence_notes : NotesValues]

Responses ==
    {[decodes |-> d, data |-> DataOf(choice)] : d \in {"first", "fixed"}, choice \in DataChoices}
        \cup {[decodes |-> "never"]}

NoClient == [client |-> FALSE]
CreateRaises == [client |-> TRUE, raises |-> TRUE]
Answers(response) == [client |-> TRUE, raises |-> FALSE, response |-> response]

CatTitles == {CucumberSalad, BeefStew, Pancakes}

CatInit ==
    /\ callIn \in {[recipe |-> [title |-> t], openai |-> o] :
                      t \in CatTitles,
                      o \in {NoClient, CreateRaises} \cup {Answers(r) : r \in Responses}}
    /\ callOut = None

Categorize ==
    /\ callIn # None
    /\ callIn.recipe # None
    /\ callOut = None
    /\ callOut' = [categorization |-> categorize_recipe(callIn.recipe, callIn.openai)]
    /\ UNCHANGED callIn
    /\ UNCHANGED <<orchVars, gateVars, selVars, segVars, batchVars>>

(***************************************************************************)
(* BatchCategorizationService.categorize_recipes_batch, one call.  The     *)
(* coroutine is suspended at "await asyncio.gather" and "await             *)
(* asyncio.sleep"; gather schedules one task per recipe of the batch, and  *)
(* a task, categorize_recipe, holds no await: the event loop runs the      *)
(* scheduled tasks one after the other, in order.                          *)
(***************************************************************************)
MaxRecipes == 5
MaxBatch == 3

\* models.py, Recipe: basic stands for the fields of lines 480-494 other than
\* title and used_ai
BatchRecipe(title) ==
    [kind |-> "Recipe", title |-> title, basic |-> "as given", used_ai |-> FALSE,
     health_tags |-> <<>>, dish_type |-> <<>>, cuisine_type |-> <<>>, meal_type |-> <<>>,
     season |-> <<>>, ai_confidence_notes |-> NoValue, ai_enhanced |-> FALSE,
     ai_model_used |-> NoValue]

_apply_categorization(recipe, categorization) ==
    [kind |-> "Recipe", title |-> recipe.title, basic |-> recipe.basic, used_ai |-> TRUE,
     health_tags |-> categorization.health_tags, dish_type |-> categorization.dish_type,
     cuisine_type |-> categorization.cuisine_type, meal_type |-> categorization.meal_type,
     season |-> categorization.season,
     ai_confidence_notes |-> categorization.confidence_notes, ai_enhanced |-> TRUE,
     ai_model_used |-> categorization.ai_model]

\* isinstance(categorization, RecipeCategorization)
IsCategorization(categorization) == categorization.kind = "RecipeCategorization"

\* lines 461-467, skipping the units whose categorization failed
AppliedTo_dropping_failed(units, results) ==
    LET kept == {k \in 1..Len(units) : IsCategorization(results[k])}
    IN [n \in 1..Cardinality(kept) |->
           LET k == CHOOSE j \in kept : Cardinality({m \in kept : m < j}) = n - 1
           IN _apply_categorization(units[k], results[k])]

\* lines 461-467: what the loop appends to enhanced_recipes
AppliedTo(units, results) ==
    [k \in 1..Len(units) |->
        IF IsCategorization(results[k]) THEN _apply_categorization(units[k], results[k])
        ELSE units[k]]

\* line 470, pausing after the last batch as well
PauseFollows_every_batch(at, size, count) == at + size <= count

\* line 470
PauseFollows(at, size, count) == at + size < count

\* range(0, len(recipes), batch_size): the loop goes on at index at
InRange(at, count) == at < count

\* recipes[at:at + size], as indices of recipes
Slice(at, size, count) == (at + 1)..(IF at + size < count THEN at + size ELSE count)

\* the answers of the collaborator the batch runs against
GoodResponse ==
    [decodes |-> "first",
     data |-> [health_tags |-> JList(<<JStr(VeganPadded), JStr(Tasty)>>),
               dish_type |-> JStr(SoupOrStew),
               cuisine_type |-> JList(<<JStr(Italian)>>),
               meal_type |-> JList(<<JStr(Dinner)>>),
               season |-> JNull,
               confidence_notes |-> JStr(SomeNotes)]]

BatchAnswers == {CreateRaises, Answers([decodes |-> "never"]), Answers(GoodResponse)}

BatchTitles == <<Pancakes, CucumberSalad, Pancakes, BeefStew>>
TitleAt(k) == BatchTitles[((k - 1) % Len(BatchTitles)) + 1]

\* categorize_recipe for the recipes and answers above, computed once
Categorizations ==
    [title \in {BatchTitles[k] : k \in 1..Len(BatchTitles)}, ai \in BatchAnswers \cup {NoClient} |->
        categorize_recipe(BatchRecipe(title), ai)]

BatchInit ==
    /\ \E n \in 0..MaxRecipes :
          /\ recipes_arg = [k \in 1..n |-> BatchRecipe(TitleAt(k))]
          /\ openai \in [1..n -> BatchAnswers] \cup {[k \in 1..n |-> NoClient]}
    /\ batch_size \in 1..MaxBatch
    /\ bpc = "start"
    /\ loop_i = 0
    /\ batch = <<>>
    /\ tasks = <<>>
    /\ enhanced_recipes = <<>>
    /\ events = <<>>

BatchIdle ==
    /\ recipes_arg = <<>> /\ openai = <<>> /\ batch_size = 0 /\ bpc = "idle" /\ loop_i = 0
    /\ batch = <<>> /\ tasks = <<>> /\ enhanced_recipes = <<>> /\ events = <<>>

Scheduled == [status |-> "scheduled"]
Done(categorization) == [status |-> "done", result |-> categorization]

\* lines 449-458: the batch at index at is cut and its tasks are scheduled
StartBatch(at) ==
    /\ loop_i' = at
    /\ batch' = [k \in 1..Cardinality(Slice(at, batch_size, Len(recipes_arg))) |-> recipes_arg[at + k]]
    /\ tasks' = [k \in 1..Cardinality(Slice(at, batch_size, Len(recipes_arg))) |-> Scheduled]
    /\ events' = Append(events, "batch")
    /\ bpc' = "gather"

\* line 474
ReturnBatch ==
    /\ bpc' = "done"
    /\ batch' = <<>>
    /\ tasks' = <<>>
    /\ UNCHANGED <<loop_i, events>>

\* lines 446-458: the call, up to the first await
EnterBatch ==
    /\ bpc = "start"
    /\ IF InRange(0, Len(recipes_arg)) THEN StartBatch(0) ELSE ReturnBatch
    /\ UNCHANGED <<recipes_arg, batch_size, openai, enhanced_recipes>>
    /\ UNCHANGED <<orchVars, gateVars, selVars, segVars, callVars>>

\* the event loop runs the first scheduled task: categorize_recipe, lines 43-81
RunTask ==
    /\ bpc = "gather"
    /\ \E k \in 1..Len(tasks) :
          /\ tasks[k] = Scheduled
          /\ \A j \in 1..(k - 1) : tasks[j] # Scheduled
          /\ tasks' = [tasks EXCEPT ![k] = Done(Categorizations[batch[k].title, openai[loop_i + k]])]
    /\ UNCHANGED <<recipes_arg, batch_size, openai, bpc, loop_i, batch,
                   enhanced_recipes, events>>
    /\ UNCHANGED <<orchVars, gateVars, selVars, segVars, callVars>>

\* lines 458-474: gather returns, the categorizations are applied, and the
\* coroutine either sleeps or, after the last batch, returns
ApplyBatch ==
    /\ bpc = "gather"
    /\ \A k \in 1..Len(tasks) : tasks[k] # Scheduled
    /\ enhanced_recipes' =
           enhanced_recipes \o AppliedTo(batch, [k \in 1..Len(tasks) |-> tasks[k].result])
    /\ IF PauseFollows(loop_i, batch_size, Len(recipes_arg))
       THEN /\ bpc' = "sleep"
            /\ events' = Append(events, "pause")
            /\ UNCHANGED <<loop_i, batch, tasks>>
       ELSE IF InRange(loop_i + batch_size, Len(recipes_arg))
       THEN StartBatch(loop_i + batch_size)
       ELSE ReturnBatch
    /\ UNCHANGED <<recipes_arg, batch_size, openai>>
    /\ UNCHANGED <<orchVars, gateVars, selVars, segVars, callVars>>

\* lines 472, 448-458: the sleep is over and the loop goes on
Wake ==
    /\ bpc = "sleep"
    /\ IF InRange(loop_i + batch_size, Len(recipes_arg)) THEN StartBatch(loop_i + batch_size) ELSE ReturnBatch
    /\ UNCHANGED <<recipes_arg, batch_size, openai, enhanced_recipes>>
    /\ UNCHANGED <<orchVars, gateVars, selVars, segVars, callVars>>

(***************************************************************************)
(* The structured-data recipe locator: RecipeService._find_recipes_        *)
(* recursive (recipe_service.py; ExtructParser._find_recipes_recursive in  *)
(* parsers/extruct.py has the same body) and _is_recipe_item of            *)
(* parsers/structured.py.  A dict is the sequence of its entries in        *)
(* insertion order, the order dict.values() follows.                       *)
(***************************************************************************)
\* 'Recipe'
RecipeType ==
    <<"R", "e", "c", "i", "p", "e">>

\* 'Article'
ArticleType ==
    <<"A", "r", "t", "i", "c", "l", "e">>

\* 'BlogPosting'
BlogPostingType ==
    <<"B", "l", "o", "g", "P", "o", "s", "t", "i", "n", "g">>

\* 'WebPage'
WebPageType ==
    <<"W", "e", "b", "P", "a", "g", "e">>

\* 'Thing'
ThingType ==
    <<"T", "h", "i", "n", "g">>

\* 'Person'
PersonType ==
    <<"P", "e", "r", "s", "o", "n">>

\* 'schema:Recipe'
SchemaRecipeType ==
    <<"s", "c", "h", "e", "m", "a", ":", "R", "e", "c", "i", "p", "e">>

\* 'None'
NoneRepr ==
    <<"N", "o", "n", "e">>

\* 'flour'
Flour ==
    <<"f", "l", "o", "u", "r">>

\* 'mix'
MixStep ==
    <<"m", "i", "x">>

\* 'PT10M'
TenMinutes ==
    <<"P", "T", "1", "0", "M">>

JDict(entries) == [kind |-> "dict", entries |-> entries]
Entry(key, value) == [key |-> key, value |-> value]

\* "key in d", d.get(key)
HasKey(d, key) == \E k \in 1..Len(d.entries) : d.entries[k].key = key
Get(d, key) ==
    IF HasKey(d, key) THEN d.entries[CHOOSE k \in 1..Len(d.entries) : d.entries[k].key = key].value
    ELSE JNull

\* bool(v)
IsTruthy(v) ==
    \/ v.kind = "str" /\ v.s # <<>>
    \/ v.kind = "number" /\ v.n # 0
    \/ v.kind = "list" /\ v.items # <<>>
    \/ v.kind = "dict" /\ v.entries # <<>>

\* str(at_type) for the type tags of the inputs: a string, a list of
\* strings, None
PyStr(v) ==
    IF v.kind = "str" THEN v.s
    ELSE IF v.kind = "list"
    THEN <<"[">> \o Join(<<",", " ">>, [k \in 1..Len(v.items) |-> <<"'">> \o v.items[k].s \o <<"'">>])
             \o <<"]">>
    ELSE NoneRepr

\* "'Recipe' in at_type" for a list
RecipeInList(at_type) ==
    at_type.kind = "list" /\ \E k \in 1..Len(at_type.items) : at_type.items[k] = JStr(RecipeType)

\* recipe_service.py lines 304-309
HasRecipeType(at_type) ==
    /\ IsTruthy(at_type)
    /\ \/ at_type = JStr(RecipeType)
       \/ RecipeInList(at_type)
       \/ Contains(PyStr(at_type), RecipeType)

IsNested(value) == value.kind \in {"dict", "list"}

\* recipe_service.py lines 301-331: what traverse(data) appends to recipes
RECURSIVE traverse(_)
traverse(data) ==
    IF data.kind = "dict"
    THEN (IF HasRecipeType(Get(data, "@type")) THEN <<data>> ELSE <<>>)
         \o (IF HasKey(data, "@graph")
             THEN Flatten([k \in 1..Len(Get(data, "@graph").items) |->
                              traverse(Get(data, "@graph").items[k])])
             ELSE <<>>)
         \o Flatten([k \in 1..Len(data.entries) |->
                        IF IsNested(data.entries[k].value) THEN traverse(data.entries[k].value)
                        ELSE <<>>])
    ELSE IF data.kind = "list"
    THEN Flatten([k \in 1..Len(data.items) |-> traverse(data.items[k])])
    ELSE <<>>

_find_recipes_recursive(obj) == traverse(obj)

\* structured.py lines 120-129
recipe_fields ==
    <<"recipeIngredient", "recipeInstructions", "ingredients", "instructions", "cookTime",
      "prepTime", "recipeYield", "nutrition">>

HasAnyField(value) ==
    value.kind = "dict" /\ \E k \in 1..Len(recipe_fields) : HasKey(value, recipe_fields[k])

\* sum(1 for field in fields if field in item and item[field])
FoundFields(item, fields) ==
    Cardinality({k \in 1..Len(fields) : HasKey(item, fields[k]) /\ IsTruthy(Get(item, fields[k]))})

\* structured.py lines 118-146
_contains_recipe_data(item) ==
    \/ FoundFields(item, recipe_fields) >= 2
    \/ \E k \in 1..Len(item.entries) :
          \/ HasAnyField(item.entries[k].value)
          \/ /\ item.entries[k].value.kind = "list"
             /\ \E n \in 1..Len(item.entries[k].value.items) :
                   HasAnyField(item.entries[k].value.items[n])

\* structured.py line 98
core_recipe_fields == <<"recipeIngredient", "recipeInstructions">>

ContainerTypes == {ArticleType, BlogPostingType, WebPageType}

\* structured.py lines 95-115, at_type being no explicit Recipe type
EmbeddedOrMentioned(item, at_type) ==
    IF PyStr(at_type) \in ContainerTypes /\ _contains_recipe_data(item)
    THEN FoundFields(item, core_recipe_fields) >= 2
    ELSE Contains(PyStr(at_type), RecipeType)

\* structured.py lines 84-117
_is_recipe_item(item) ==
    \/ Get(item, "@type") = JStr(RecipeType)
    \/ RecipeInList(Get(item, "@type"))
    \/ EmbeddedOrMentioned(item, Get(item, "@type"))

(***************************************************************************)
(* The locator applied to one structured-data tree: a node, the nodes its  *)
(* '@graph' field bundles and the node under its 'mainEntity' field.       *)
(***************************************************************************)
MaxNodes == 2

Strings(texts) == JList([k \in 1..Len(texts) |-> JStr(texts[k])])
BothCore ==
    <<Entry("recipeIngredient", Strings(<<Flour>>)), Entry("recipeInstructions", Strings(<<MixStep>>))>>

\* the nodes: their type tag and their own fields
NodeKinds ==
    {[at_type |-> JStr(RecipeType), fields |-> BothCore],
     [at_type |-> Strings(<<ThingType, RecipeType>>), fields |-> BothCore],
     [at_type |-> JStr(SchemaRecipeType), fields |-> <<>>],
     [at_type |-> JStr(ArticleType), fields |-> <<>>],
     [at_type |-> JStr(ArticleType), fields |-> BothCore],
     [at_type |-> JStr(BlogPostingType),
      fields |-> <<Entry("cookTime", JStr(TenMinutes)), Entry("recipeIngredient", Strings(<<Flour>>))>>],
     [at_type |-> JStr(WebPageType),
      fields |-> <<Entry("recipeIngredient", Strings(<<>>)),
                   Entry("recipeInstructions", Strings(<<MixStep>>))>>],
     [at_type |-> JStr(PersonType), fields |-> <<>>],
     [at_type |-> Missing, fields |-> BothCore]}

\* the nodes found under 'mainEntity'
MainKinds ==
    {[at_type |-> JStr(RecipeType), fields |-> BothCore],
     [at_type |-> JStr(ArticleType), fields |-> BothCore]}

Absent == [absent |-> TRUE]
Present(kinds) == [absent |-> FALSE, kinds |-> kinds]

\* a node of the given kind; name tells the nodes of one tree apart
Node(kind, name, nested) ==
    JDict((IF kind.at_type = Missing THEN <<>> ELSE <<Entry("@type", kind.at_type)>>)
              \o <<Entry("name", JStr(name))>> \o kind.fields \o nested)

GraphOf(kinds) ==
    JList([k \in 1..Len(kinds) |-> Node(kinds[k], <<"g">> \o IntToStr(k), <<>>)])

Bundled(graph) ==
    IF graph.absent THEN <<>> ELSE <<Entry("@graph", GraphOf(graph.kinds))>>

MainEntity(kind) ==
    IF kind = Absent THEN <<>> ELSE <<Entry("mainEntity", Node(kind, <<"m">>, <<>>))>>

Trees ==
    {Node(top, <<"t">>, Bundled(graph) \o MainEntity(main)) :
        top \in NodeKinds,
        graph \in {Present(kinds) : kinds \in SeqsUpTo(NodeKinds, MaxNodes)} \cup {Absent},
        main \in MainKinds \cup {Absent}}

\* the nodes of a tree, each once, in depth-first order
RECURSIVE NodesOf(_)
NodesOf(data) ==
    IF data.kind = "dict"
    THEN <<data>> \o Flatten([k \in 1..Len(data.entries) |-> NodesOf(data.entries[k].value)])
    ELSE IF data.kind = "list"
    THEN Flatten([k \in 1..Len(data.items) |-> NodesOf(data.items[k])])
    ELSE <<>>

LocInit ==
    /\ callIn \in {[obj |-> tree] : tree \in Trees}
    /\ callOut = None

Locate ==
    /\ callIn # None
    /\ callOut = None
    /\ callOut' = [recipes |-> _find_recipes_recursive(callIn.obj),
                   items |-> [k \in 1..Len(NodesOf(callIn.obj)) |->
                                 _is_recipe_item(NodesOf(callIn.obj)[k])]]
    /\ UNCHANGED callIn
    /\ UNCHANGED <<orchVars, gateVars, selVars, segVars, batchVars>>

(***************************************************************************)
(* Specifications                                                           *)
(***************************************************************************)
CallIdle == callIn = None /\ callOut = None
OthersIdle == OrchIdle /\ GateIdle /\ SelIdle /\ SegIdle /\ BatchIdle

Init == OrchInit /\ GateIdle /\ SelIdle /\ SegIdle /\ CallIdle /\ BatchIdle
\* parse_recipe_hybrid
Next == Fetch \/ Scan \/ Step1 \/ Step2 \/ Step3
Spec == Init /\ [][Next]_vars

InitGate == GateInit /\ OrchIdle /\ SelIdle /\ SegIdle /\ CallIdle /\ BatchIdle
NextGate == Judge
SpecGate == InitGate /\ [][NextGate]_vars

InitSel == SelInit /\ OrchIdle /\ GateIdle /\ SegIdle /\ CallIdle /\ BatchIdle
NextSel == Select
SpecSel == InitSel /\ [][NextSel]_vars

InitSeg == SegInit /\ OrchIdle /\ GateIdle /\ SelIdle /\ CallIdle /\ BatchIdle
NextSeg == Segment
SpecSeg == InitSeg /\ [][NextSeg]_vars

InitImg == ImgInit /\ OthersIdle
NextImg == ScanImage
SpecImg == InitImg /\ [][NextImg]_vars

InitSrc == SrcInit /\ OthersIdle
NextSrc == ResolveSource
SpecSrc == InitSrc /\ [][NextSrc]_vars

InitFrac == FracInit /\ OthersIdle
NextFrac == ConvertFraction
SpecFrac == InitFrac /\ [][NextFrac]_vars

InitIng == IngInit /\ OthersIdle
NextIng == ParseIngredients
SpecIng == InitIng /\ [][NextIng]_vars

InitSyn == SynInit /\ OthersIdle
NextSyn == NormalizeName
SpecSyn == InitSyn /\ [][NextSyn]_vars

InitThr == ThrInit /\ OthersIdle
NextThr == ParseAtThreshold
SpecThr == InitThr /\ [][NextThr]_vars

\* categorize_recipe
InitCat == CatInit /\ OthersIdle
NextCat == Categorize
SpecCat == InitCat /\ [][NextCat]_vars

\* _find_recipes_recursive and _is_recipe_item
InitLoc == LocInit /\ OthersIdle
NextLoc == Locate
SpecLoc == InitLoc /\ [][NextLoc]_vars

\* categorize_recipes_batch
InitBatch == BatchInit /\ OrchIdle /\ GateIdle /\ SelIdle /\ SegIdle /\ CallIdle
NextBatch == EnterBatch \/ RunTask \/ ApplyBatch \/ Wake
SpecBatch == InitBatch /\ [][NextBatch]_vars
\* the event loop runs a scheduled task, resumes a coroutine whose awaited
\* tasks are done, and ends a sleep after its delay
SpecBatchLive == SpecBatch /\ WF_vars(NextBatch)

(***************************************************************************)
(* Properties of parse_recipe_hybrid (specification Spec)                  *)
(***************************************************************************)
Invoked(s) == \E i \in 1..Len(calls) : calls[i] = s
IsPrefix(p, q) == Len(p) <= Len(q) /\ \A i \in 1..Len(p) : p[i] = q[i]
StrategyNames == {"site", "structured", "ai"}
NoResult == {"raised", "nothing"}
Finished == pc = "done" /\ error = "none"

\* C1: the collaborators are called in the fixed order fetch, scan, site
\* adapter, structured data, AI; a strategy is invoked only if no earlier
\* strategy returned a complete recipe; and a strategy whose answer is
\* complete ends the call with that strategy's recipe as the result.
C1_FixedOrderShortCircuit ==
    /\ IsPrefix(calls, <<"fetch", "scan", "site", "structured", "ai">>)
    /\ Invoked("structured") => outcome["site"] # "complete"
    /\ Invoked("ai") => outcome["site"] # "complete" /\ outcome["structured"] # "complete"
    /\ \A s \in StrategyNames :
          outcome[s] = "complete" =>
              /\ Finished
              /\ path = s
              /\ result.by = s
              /\ RatesComplete(result)
    /\ path \in StrategyNames => outcome[path] = "complete"

C1_Witness ==
    /\ Finished
    /\ outcome["site"] = "complete"
    /\ calls = <<"fetch", "scan", "site">>
    /\ result.by = "site"

\* C2 (as claimed): when every strategy ran and none returned a complete
\* recipe, the recipe returned is the one of the first strategy, in the order
\* site adapter, structured data, AI, whose answer was good-enough.
C2_FirstGoodEnoughReturned ==
    (/\ Finished
     /\ \A s \in StrategyNames : outcome[s] \notin {"notrun", "complete"}
     /\ \E s \in StrategyNames : outcome[s] = "good")
    => LET k == Min({i \in 1..3 : outcome[Strategies[i]] = "good"})
       IN result.by = Strategies[k]

\* C3 (as claimed): when no strategy's answer was good-enough the result is
\* the sentinel (the fixed title, one ingredient, one instruction), and a
\* result that is not the sentinel is good-enough.
C3_SentinelUnlessGoodEnough ==
    Finished =>
        /\ (\A s \in StrategyNames : outcome[s] \notin {"good", "complete"})
              => /\ result.title = "Unable to parse recipe"
                 /\ result.ni = 1 /\ result.ns = 1
                 /\ result.by = "sentinel"
        /\ result.by # "sentinel" => RatesGoodEnough(result)

\* C4: a strategy whose collaborator raised or that returned nothing leaves
\* no exception to parse_recipe_hybrid, and the next strategy is invoked;
\* after the AI strategy the call ends with the sentinel.
C4_StrategyFailureAdvances ==
    /\ (\E s \in StrategyNames : outcome[s] # "notrun") => error = "none"
    /\ outcome["site"] \in NoResult => (pc = "structured" \/ Invoked("structured"))
    /\ outcome["structured"] \in NoResult => (pc = "ai" \/ Invoked("ai"))
    /\ outcome["ai"] \in NoResult => (Finished /\ path = "sentinel" /\ result.by = "sentinel")

C4_Witness ==
    /\ outcome["site"] = "raised"
    /\ outcome["structured"] = "raised"
    /\ outcome["ai"] = "raised"
    /\ Finished
    /\ calls = <<"fetch", "scan", "site", "structured", "ai">>

C6_OnlyImagePatched ==
    Finished =>
        LET produced == IF path = "sentinel" THEN Sentinel(NoImage) ELSE rawOut
        IN /\ result = [produced EXCEPT !.image = result.image]
           /\ produced.image # NoImage => result.image = produced.image
           /\ (produced.image = NoImage /\ page.og # NoImage) => result.image = page.og

C6_Witness ==
    /\ Finished
    /\ path = "best attempt"
    /\ rawOut.image = NoImage
    /\ result.image = OgImage
    /\ result.by = "ai"

(***************************************************************************)
(* Properties of the gates and of the selection (SpecGate, SpecSel)        *)
(***************************************************************************)
\* C7 (as claimed): both completeness gates hold exactly of the recipes with
\* a real title, at least 3 ingredients and at least 2 instructions;
\* is_good_enough_recipe holds exactly of those with a real title and at
\* least 2 ingredients or at least 1 instruction; complete implies good-enough.
C7_GatesAgree ==
    gateOut # None =>
        /\ gateOut.service = RatesComplete(gateIn)
        /\ gateOut.converter = RatesComplete(gateIn)
        /\ gateOut.good_enough = RatesGoodEnough(gateIn)
        /\ gateOut.service => gateOut.good_enough
        /\ gateOut.converter => gateOut.good_enough

\* C8 (as claimed): both selections return the first complete candidate,
\* else the first good-enough one, else the first one, and nothing only for
\* the empty list.
TieredChoice(recipes) ==
    LET complete == {i \in 1..Len(recipes) : RatesComplete(recipes[i])}
        good == {i \in 1..Len(recipes) : RatesGoodEnough(recipes[i])}
    IN IF complete # {} THEN recipes[Min(complete)]
       ELSE IF good # {} THEN recipes[Min(good)]
       ELSE IF recipes # <<>> THEN recipes[1]
       ELSE None

C8_SelectionTiers ==
    selOut # None =>
        /\ selOut.parser = TieredChoice(cands)
        /\ selOut.service = TieredChoice(cands)

(***************************************************************************)
(* Properties of the instruction segmenter (SpecSeg)                       *)
(***************************************************************************)
\* the raw input holds some text that is not blank
NonBlank(r) ==
    IF r.kind = "str" THEN strip(RawText(r)) # <<>>
    ELSE \E i \in 1..Len(r.items) : strip(EntryText(r.items[i])) # <<>>

\* C9 (as claimed): a raw input with some non-blank text never yields an
\* empty list of instructions.
C9_NeverEmptiesNonBlank ==
    (segOut.done /\ NonBlank(raw)) => segOut.steps # <<>>

\* the raw input is one string of N >= 2 steps numbered 1., 2., ..., N.
NumberedStep(k) ==
    CASE k = 1 -> {Short1, Long1}
      [] k = 2 -> {Short2, Long2}
      [] k = 3 -> {Short3, Long3}
      [] OTHER -> {}

IsNumberedSteps(r) ==
    /\ r.kind = "str"
    /\ Len(r.parts) >= 2
    /\ \A k \in 1..Len(r.parts) : r.parts[k] \in NumberedStep(k)

\* the fragment begins with a bare ordinal: digits and a dot
StartsWithOrdinal(frag) == frag # <<>> /\ MatchAt([kind |-> "ordinal", lit |-> <<>>], frag, 1)

PriorityImage(soup) ==
    IF soup.og # NoImage THEN soup.og
    ELSE IF soup.twitter # NoImage THEN soup.twitter
    ELSE IF soup.schema # NoImage THEN soup.schema
    ELSE IF soup.main THEN FirstRecipeImage(soup.images)
    ELSE NoImage

\* C11 (as claimed): each implementation of the scan returns the image of
\* the highest-priority source the page has, and raises for no page.
C11_ImagePriority ==
    callOut # None =>
        /\ ~callOut.service.raised
        /\ ~callOut.extractor.raised
        /\ callOut.service.val = PriorityImage(callIn)
        /\ callOut.extractor.val = PriorityImage(callIn)

(***************************************************************************)
(* Properties of the recipe source (SpecSrc)                               *)
(***************************************************************************)
\* the name a structured-data value declares, empty when it declares none
DeclaredName(v) == IF v.kind \in {"str", "dict"} THEN v.name ELSE <<>>

\* personal as the claim defines it: exactly two capitalized words with no
\* organizational keyword, or containing 'by ' / 'recipe by'
ClaimedPersonal(name) ==
    LET name_lower == lower(name)
        words == WordStarts(name)
    IN \/ Contains(name_lower, ByIndicator)
       \/ Contains(name_lower, RecipeByIndicator)
       \/ /\ Cardinality(words) = 2
          /\ \A i \in words : IsUpperChar(name[i])
          /\ ~\E org_word \in org_words : Contains(name_lower, org_word)

\* C12 (as claimed): the source is the publisher name; else the author name
\* unless it looks personal; else the site-entity name; else a name derived
\* from the domain, so that no recipe ends with a missing source.
C12_SourcePriority ==
    callOut # None =>
        LET publisher == DeclaredName(callIn.publisher)
            author == DeclaredName(callIn.author)
            site == DeclaredName(callIn.mainEntityOfPage)
            author_ok == author # <<>> /\ ~ClaimedPersonal(author)
        IN /\ publisher # <<>> => callOut.converter = publisher
           /\ (publisher = <<>> /\ author_ok) => callOut.converter = author
           /\ (publisher = <<>> /\ ~author_ok /\ site # <<>>) => callOut.converter = site
           /\ callOut.converter # NoSource
           /\ callOut.service # NoSource

(***************************************************************************)
(* Properties of the quantity conversions (SpecFrac)                       *)
(***************************************************************************)
\* the character the table gives the text n/d, or the text where it has none
GlyphOrText(text) ==
    IF \E k \in 1..Len(UNICODE_TO_FRACTION) : UNICODE_TO_FRACTION[k].text = text
    THEN <<UNICODE_TO_FRACTION[CHOOSE k \in 1..Len(UNICODE_TO_FRACTION) :
                                   UNICODE_TO_FRACTION[k].text = text].glyph>>
    ELSE text

\* C13: a vulgar-fraction character normalized to its text n/d and converted
\* back is the same character, and the two tables are inverse to each other:
\* no two characters share a text n/d, and the text of a character looks up
\* that character.
C13_FractionRoundTrip ==
    /\ \A j, k \in 1..Len(UNICODE_TO_FRACTION) :
          j # k => /\ UNICODE_TO_FRACTION[j].text # UNICODE_TO_FRACTION[k].text
                   /\ UNICODE_TO_FRACTION[j].glyph # UNICODE_TO_FRACTION[k].glyph
    /\ \A k \in 1..Len(UNICODE_TO_FRACTION) :
          FRACTION_TO_UNICODE(UNICODE_TO_FRACTION[k].text, <<>>)
              = <<UNICODE_TO_FRACTION[k].glyph>>
    /\ (callOut # None /\ callIn.kind = "glyph") =>
          /\ \E k \in 1..Len(UNICODE_TO_FRACTION) :
                /\ callIn.text = <<UNICODE_TO_FRACTION[k].glyph>>
                /\ callOut.normalized = UNICODE_TO_FRACTION[k].text
          /\ callOut.converted = callIn.text

C13_Witness ==
    /\ callOut # None
    /\ callIn.text = <<"U+215E">>
    /\ callOut.normalized = <<"7", "/", "8">>
    /\ callOut.converted = <<"U+215E">>

\* the rational a rendered quantity stands for, as <<numerator, denominator>>:
\* 'q', a fraction, or 'q' and a fraction separated by one space
ValueOfRendered(out) ==
    LET spaces == {i \in 1..Len(out) : out[i] = " "}
        p == IF spaces = {} THEN 0 ELSE CHOOSE i \in spaces : TRUE
        head == SubSeq(out, 1, IF p = 0 THEN Len(out) ELSE p - 1)
        tail == IF p = 0 THEN <<>> ELSE SubSeq(out, p + 1, Len(out))
        a == FractionOfStr(ReplaceFractions(head, 1))
        b == IF tail = <<>> THEN Fraction(0, 1) ELSE FractionOfStr(ReplaceFractions(tail, 1))
    IN <<a.num * b.den + b.num * a.den, a.den * b.den>>

\* C14: the text n/d of positive integers n and d > 1 is converted to the
\* integer q = n div d when d divides n, to the remainder fraction alone when
\* q = 0, and to q, a space and the remainder fraction otherwise, the
\* remainder fraction reduced and written as its character where the table
\* has one; the result stands for exactly n/d; 7/2 gives 3 and the character
\* of one half, 5/4 gives 1 and the character of one quarter.
C14_MixedNumberExact ==
    (callOut # None /\ callIn.kind = "ratio") =>
        LET n == callIn.n
            d == callIn.d
            q == n \div d
            r == n % d
            g == GCD(r, d)
            fraction == GlyphOrText(IntToStr(r \div g) \o <<"/">> \o IntToStr(d \div g))
            value == ValueOfRendered(callOut.converted)
        IN /\ r = 0 => callOut.converted = IntToStr(q)
           /\ (r # 0 /\ q = 0) => callOut.converted = fraction
           /\ (r # 0 /\ q # 0) => callOut.converted = IntToStr(q) \o <<" ">> \o fraction
           /\ value[1] * d = n * value[2]
           /\ (n = 7 /\ d = 2) => callOut.converted = <<"3", " ", "U+00BD">>
           /\ (n = 5 /\ d = 4) => callOut.converted = <<"1", " ", "U+00BC">>

C14_Witness ==
    /\ callOut # None
    /\ callIn.kind = "ratio"
    /\ callIn.n = 7 /\ callIn.d = 2
    /\ callOut.converted = <<"3", " ", "U+00BD">>

(***************************************************************************)
(* Properties of the structured ingredients (SpecIng)                      *)
(***************************************************************************)
\* the records parse_ingredient_structured returned for the lines, in order
ParsedRecords == SelectSeq(callOut.items, IsStructured)

\* the parsed records with the name and the unit of record r, in order
SameNameAndUnit(r) ==
    LET same(p) == p.raw_ingredient = r.raw_ingredient /\ p.unit = r.unit
    IN SelectSeq(ParsedRecords, same)

\* the number a quantity is, where it is one
NumberOf(quantity) == FractionOfStr(normalize_fractions_for_parsing(quantity))

RECURSIVE ExactSum(_)
ExactSum(records) ==
    IF records = <<>> THEN Fraction(0, 1)
    ELSE LET a == NumberOf(Head(records).quantity)
             b == ExactSum(Tail(records))
         IN Fraction(a.num * b.den + b.num * a.den, a.den * b.den)

\* C15 (as claimed): where two or more parsed records share name and unit,
\* the list holds one record for them with that unit whose quantity is the
\* rendering of the exact rational sum of their quantities when each is a
\* number, and 'q1 + q2' for a pair of quantities of which one is no number;
\* '1 cup flour' and '2 cups flour' parsed with one unit give one record of
\* quantity 3 and that unit.
C15_ExactSum ==
    callOut # None =>
        /\ \A i \in 1..Len(ParsedRecords) :
              LET group == SameNameAndUnit(ParsedRecords[i])
                  numbers == \A k \in 1..Len(group) : NumberOf(group[k].quantity).ok
              IN Len(group) >= 2 =>
                    \E j \in 1..Len(callOut.list) :
                        LET merged == callOut.list[j]
                        IN /\ merged.raw_ingredient = group[1].raw_ingredient
                           /\ merged.unit = group[1].unit
                           /\ numbers =>
                                 merged.quantity =
                                     convert_to_unicode_fraction(StrOfFraction(ExactSum(group)))
                           /\ (/\ Len(group) = 2 /\ ~numbers
                               /\ ~Falsy(group[1].quantity) /\ ~Falsy(group[2].quantity))
                              => merged.quantity =
                                     group[1].quantity \o PlusSign \o group[2].quantity
        /\ (/\ callIn.ingredients = <<Flour1Cup, Flour2Cups>>
            /\ callOut.items[1].unit = callOut.items[2].unit)
           => /\ Len(callOut.list) = 1
              /\ callOut.list[1].quantity = <<"3">>
              /\ callOut.list[1].unit = callOut.items[1].unit

\* C16: a line whose NLP parse names the ingredient with a confidence below
\* 0.6 gives a record with used_fallback true, the trimmed line as
\* raw_ingredient and neither quantity nor unit; with a confidence of 0.6 or
\* more no record has used_fallback true.
C16_ConfidenceGatedFallback ==
    callOut # None =>
        \A k \in 1..Len(callIn.ingredients) :
            LET line == callIn.ingredients[k]
                parsed == callIn.nlp[normalize_fractions_for_parsing(line)]
                item == callOut.items[k]
                rated == strip(line) # <<>> /\ ~parsed.exc /\ Len(parsed.name.items) > 0
                confidence == parsed.name.items[1].confidence
            IN rated =>
                  /\ confidence < 60 =>
                        /\ item # None
                        /\ item.used_fallback
                        /\ item.raw_ingredient = strip(line)
                        /\ item.quantity = NoValue
                        /\ item.unit = NoValue
                  /\ confidence >= 60 => (item = None \/ ~item.used_fallback)

C16_Witness ==
    /\ callOut # None
    /\ callIn.ingredients = <<Eggs, SaltToTaste>>
    /\ callIn.nlp[SaltToTaste].exc = FALSE
    /\ Len(callIn.nlp[SaltToTaste].name.items) = 1
    /\ callIn.nlp[SaltToTaste].name.items[1].confidence = 60
    /\ callOut.items[1].used_fallback
    /\ callOut.items[1].confidence = 40
    /\ callOut.items[1].raw_ingredient = <<"e", "g", "g", "s">>
    /\ callOut.items[1].original_text = <<" ", "e", "g", "g", "s">>
    /\ callOut.items[2] # None
    /\ ~callOut.items[2].used_fallback

\* C17 (as claimed): every record of the list parse_ingredients_list returns,
\* consolidated or not, that has used_fallback true has neither quantity nor
\* unit, and its raw_ingredient is a line of the input, trimmed.
C17_FallbackRecordsVerbatim ==
    callOut # None =>
        \A j \in 1..Len(callOut.list) :
            callOut.list[j].used_fallback =>
                /\ callOut.list[j].quantity = NoValue
                /\ callOut.list[j].unit = NoValue
                /\ \E k \in 1..Len(callIn.ingredients) :
                      callOut.list[j].raw_ingredient = strip(callIn.ingredients[k])

\* C18: the list holds exactly one record for each pair of name and unit that
\* occurs among the parsed records (no unit being equal to no unit only), the
\* pairs in the list are distinct, a pair that occurs once keeps its record
\* unchanged, and a pair that occurs more often gets one record that combines
\* the records of the pair and of no other.
C18_MergeIffNameAndUnit ==
    callOut # None =>
        LET pair(r) == <<r.raw_ingredient, r.unit>>
        IN /\ {pair(callOut.list[j]) : j \in 1..Len(callOut.list)}
                 = {pair(ParsedRecords[i]) : i \in 1..Len(ParsedRecords)}
           /\ \A i, j \in 1..Len(callOut.list) :
                 i # j => pair(callOut.list[i]) # pair(callOut.list[j])
           /\ \A i \in 1..Len(ParsedRecords) :
                 LET group == SameNameAndUnit(ParsedRecords[i])
                 IN \E j \in 1..Len(callOut.list) :
                       /\ pair(callOut.list[j]) = pair(ParsedRecords[i])
                       /\ Len(group) = 1 => callOut.list[j] = ParsedRecords[i]
                       /\ Len(group) > 1 =>
                             callOut.list[j].original_text =
                                 CombinedPrefix \o
                                 Join(<<",", " ">>,
                                      [k \in 1..Len(group) |-> group[k].original_text])

C18_Witness ==
    /\ callOut # None
    /\ callIn.ingredients = <<Flour1Cup, Flour2Cups, Flour2Cups>>
    /\ Len(ParsedRecords) = 3
    /\ ParsedRecords[1].unit = <<"c", "u", "p">>
    /\ ParsedRecords[2].unit = <<"c", "u", "p", "s">>
    /\ Len(callOut.list) = 2
    /\ callOut.list[1] = ParsedRecords[1]
    /\ callOut.list[2].quantity = <<"4">>
    /\ callOut.list[2].unit = <<"c", "u", "p", "s">>

(***************************************************************************)
(* Properties of the failure paths of parse_recipe_hybrid (Spec)           *)
(***************************************************************************)
\* C20 (as claimed): whenever the fetch succeeded, parse_recipe_hybrid ends
\* by returning a recipe, a strategy's or the sentinel with the fixed title,
\* and no exception reaches the caller: not from a strategy, not from the AI
\* answer, not from the scan of the page for the fallback image.
C20_OnlyFetchFailureSurfaces ==
    (pc = "done" /\ page.ok) =>
        /\ error = "none"
        /\ result # None
        /\ path \in {"site", "structured", "ai", "best attempt", "sentinel"}
        /\ path = "sentinel" => result.title = "Unable to parse recipe"

(***************************************************************************)
(* The fallback-image scan of parse_recipe_hybrid (Spec)                   *)
(***************************************************************************)
ScanCalls == {k \in 1..Len(calls) : calls[k] = "scan"}

\* C24: the page is scanned for the fallback image once per call, after the
\* fetch and before the first strategy, never again for a strategy, and the
\* value found is the fallback image of whichever result or sentinel is
\* returned.
C24_SingleUpFrontScan ==
    /\ Cardinality(ScanCalls) <= 1
    /\ \A k \in 1..Len(calls) :
          calls[k] \in StrategyNames => (calls[1] = "fetch" /\ calls[2] = "scan" /\ k > 2)
    /\ (page.ok /\ pc \notin {"idle", "fetch", "scan"}) => ScanCalls = {2}
    /\ Finished =>
          /\ fallback_image = _extract_fallback_image(page).val
          /\ path # "sentinel" /\ result.image # rawOut.image => result.image = fallback_image
          /\ path = "sentinel" => result.image = fallback_image

\* all three strategies ran after the one scan, and the sentinel returned
\* carries the image the scan found
C24_Witness ==
    /\ Finished
    /\ calls = <<"fetch", "scan", "site", "structured", "ai">>
    /\ path = "sentinel"
    /\ result.image = OgImage

(***************************************************************************)
(* Properties of categorize_recipes_batch (SpecBatch, SpecBatchLive)       *)
(***************************************************************************)
\* the categorization of unit k fails: the call returns nothing or raises
UnitFails(k) ==
    \/ ~openai[k].client
    \/ openai[k].raises
    \/ Categorizations[recipes_arg[k].title, openai[k]] = None

\* the recipe returned for unit k carries the categorization of unit k
CarriesCategorization(k) ==
    LET given == recipes_arg[k]
        applied == enhanced_recipes[k]
        categorization == Categorizations[given.title, openai[k]]
    IN /\ applied.title = given.title
       /\ applied.basic = given.basic
       /\ applied.ai_enhanced
       /\ applied.health_tags = categorization.health_tags
       /\ applied.dish_type = categorization.dish_type
       /\ applied.cuisine_type = categorization.cuisine_type
       /\ applied.meal_type = categorization.meal_type
       /\ applied.season = categorization.season
       /\ applied.ai_confidence_notes = categorization.confidence_notes
       /\ applied.ai_model_used = categorization.ai_model

\* C21: whichever units fail, categorize_recipes_batch completes and returns
\* one recipe per input recipe, in input order: a failed unit unmodified, a
\* successful unit with its own categorization applied, so that the outcome
\* of a unit depends on that unit alone.
C21_PartialFailure ==
    /\ <>(bpc = "done")
    /\ [](bpc = "done" =>
            /\ Len(enhanced_recipes) = Len(recipes_arg)
            /\ \A k \in 1..Len(recipes_arg) :
                  IF UnitFails(k) THEN enhanced_recipes[k] = recipes_arg[k]
                  ELSE CarriesCategorization(k))

\* a call of two batches or more has returned, and in one batch one unit
\* failed and another succeeded
C21_Witness ==
    /\ bpc = "done"
    /\ Len(recipes_arg) > batch_size
    /\ \E j, k \in 1..Len(recipes_arg) :
          /\ (j - 1) \div batch_size = (k - 1) \div batch_size
          /\ UnitFails(j)
          /\ ~UnitFails(k)

\* the number of batches of a list of count units
BatchCount(count, size) == (count + size - 1) \div size

\* the categorizations in flight: the tasks scheduled and not yet finished
InFlight == {k \in 1..Len(tasks) : tasks[k] = Scheduled}

\* C25: categorize_recipes_batch processes the units in consecutive batches
\* of at most batch_size: at most batch_size categorizations are in flight,
\* a batch starts only when every unit before it has finished, a pause
\* separates every two consecutive batches and none follows the last batch,
\* and the call terminates.
C25_BatchesInTurn ==
    /\ [](Cardinality(InFlight) <= batch_size)
    /\ [](bpc = "gather" =>
            /\ Len(enhanced_recipes) = loop_i
            /\ loop_i % batch_size = 0
            /\ Len(batch) \in 1..batch_size
            /\ \A k \in 1..Len(batch) : batch[k] = recipes_arg[loop_i + k]
            /\ Len(batch) < batch_size => loop_i + Len(batch) = Len(recipes_arg))
    /\ [][Len(events') > Len(events) /\ events'[Len(events')] = "batch" =>
            /\ InFlight = {}
            /\ events # <<>> => events[Len(events)] = "pause"]_vars
    /\ [](bpc = "done" =>
            /\ Len(events) = (IF recipes_arg = <<>> THEN 0
                              ELSE 2 * BatchCount(Len(recipes_arg), batch_size) - 1)
            /\ \A k \in 1..Len(events) :
                  events[k] = (IF k % 2 = 1 THEN "batch" ELSE "pause"))
    /\ <>(bpc = "done")

\* a call of three batches or more has returned, its last batch shorter than
\* batch_size
C25_Witness ==
    /\ bpc = "done"
    /\ Len(events) >= 5
    /\ Len(recipes_arg) % batch_size # 0

(***************************************************************************)
(* Properties of categorize_recipe (SpecCat)                               *)
(***************************************************************************)
\* every element of tags is an element of allowed
AllIn(tags, allowed) == \A k \in 1..Len(tags) : InList(tags[k], allowed)

\* C22: every tag of a RecipeCategorization returned by categorize_recipe
\* belongs to the allowed list of its field, whatever tags the AI response
\* held, and the season list is never empty.
C22_TagsAllowed ==
    (callOut # None /\ callOut.categorization # None) =>
        /\ AllIn(callOut.categorization.health_tags, HEALTH_TAGS)
        /\ AllIn(callOut.categorization.dish_type, DISH_TYPES)
        /\ AllIn(callOut.categorization.cuisine_type, CUISINE_TYPES)
        /\ AllIn(callOut.categorization.meal_type, MEAL_TYPES)
        /\ AllIn(callOut.categorization.season, SEASONS)
        /\ callOut.categorization.season # <<>>

\* a categorization was returned for a response that held a tag in another
\* casing than the allowed one, an unknown health tag, an unknown cuisine and
\* no known season
C22_Witness ==
    /\ callOut # None
    /\ callOut.categorization # None
    /\ callIn.openai.response.data.health_tags =
           JList(<<JStr(VeganPadded), JStr(FodmapFree), JStr(Tasty)>>)
    /\ callIn.openai.response.data.cuisine_type = JList(<<JStr(Martian)>>)
    /\ callIn.openai.response.data.season = JList(<<JStr(Monsoon)>>)

(***************************************************************************)
(* Properties of the structured-data recipe locator (SpecLoc)              *)
(***************************************************************************)
\* the type tag of node equals 'Recipe', is a list containing 'Recipe', or
\* contains the text 'Recipe'
TypeTagSaysRecipe(node) ==
    LET at_type == Get(node, "@type")
    IN \/ at_type = JStr(RecipeType)
       \/ at_type.kind = "list" /\ \E k \in 1..Len(at_type.items) : at_type.items[k] = JStr(RecipeType)
       \/ at_type.kind = "str" /\ Contains(at_type.s, RecipeType)

NonEmptyField(node, key) == HasKey(node, key) /\ Get(node, key) \notin {JNull, JList(<<>>), JStr(<<>>)}

\* node has a generic container type and carries both core fields
ContainerWithCoreFields(node) ==
    /\ Get(node, "@type") \in {JStr(ArticleType), JStr(BlogPostingType), JStr(WebPageType)}
    /\ NonEmptyField(node, "recipeIngredient")
    /\ NonEmptyField(node, "recipeInstructions")

Reported(node) == \E k \in 1..Len(callOut.recipes) : callOut.recipes[k] = node

\* C23: a node is a recipe iff its type tag says Recipe or it is a generic
\* container carrying both core fields, and the locator of the orchestrator
\* reports the nodes of a tree by this same rule.
C23_DetectionRule ==
    callOut # None =>
        \A k \in 1..Len(NodesOf(callIn.obj)) :
            LET node == NodesOf(callIn.obj)[k]
                rule == TypeTagSaysRecipe(node) \/ ContainerWithCoreFields(node)
            IN /\ callOut.items[k] <=> rule
               /\ Reported(node) <=> rule

\* the recipe nodes of the tree, each once, in depth-first discovery order
DistinctRecipeNodes ==
    SelectSeq(NodesOf(callIn.obj), LAMBDA node : HasRecipeType(Get(node, "@type")))

\* C28: the list the locator returns holds no node twice, also for trees
\* that bundle nodes under '@graph', and lists the distinct recipe nodes in
\* depth-first discovery order.
C28_EachNodeOnce ==
    callOut # None =>
        /\ \A j, k \in 1..Len(callOut.recipes) : j # k => callOut.recipes[j] # callOut.recipes[k]
        /\ callOut.recipes = DistinctRecipeNodes

(***************************************************************************)
(* The length floors of the segmenter (SpecSeg)                            *)
(***************************************************************************)
InSteps(step) == \E k \in 1..Len(segOut.steps) : segOut.steps[k] = step

\* the fragments are kept from floor characters on
KeptFrom(fragments, floor) ==
    \A k \in 1..Len(fragments) :
        InSteps(strip(fragments[k])) <=> Len(strip(fragments[k])) >= floor

\* C26: a fragment is discarded iff its trimmed length is below the floor,
\* 20 characters for the fragments of one concatenated string and 10
\* characters for the entries of a list, so that a fragment of exactly the
\* floor length is kept.
C26_LengthFloor ==
    segOut.done =>
        /\ raw.kind = "list" =>
              KeptFrom(SelectSeq([k \in 1..Len(raw.items) |-> EntryText(raw.items[k])],
                                 LAMBDA text : text # <<>> /\ ~_looks_like_concatenated_steps(text)),
                       10)
        /\ (raw.kind = "str" /\ _split_concatenated_instructions(RawText(raw)) # <<RawText(raw)>>) =>
              KeptFrom(ApplyPatterns(split_patterns, <<RawText(raw)>>), 20)

(***************************************************************************)
(* Sums of rendered quantities (SpecFrac): the converted quantity of a     *)
(* state is combined with one half and one quarter.                        *)
(***************************************************************************)
OneHalf == <<"U+00BD">>

OneQuarter == <<"U+00BC">>

\* the rendering of the exact sum of rendered quantities
RenderedSum(quantities) ==
    LET value(k) == ValueOfRendered(quantities[k])
        RECURSIVE sum(_)
        sum(k) == IF k = 0 THEN Fraction(0, 1)
                  ELSE LET a == sum(k - 1)
                       IN Fraction(a.num * value(k)[2] + value(k)[1] * a.den,
                                   a.den * value(k)[2])
    IN convert_to_unicode_fraction(StrOfFraction(sum(Len(quantities))))

\* the fold of lines 349-350 over quantities
Folded(quantities) ==
    CombineAll(Head(quantities), [k \in 1..(Len(quantities) - 1) |-> [quantity |-> quantities[k + 1]]])

\* C27 (as claimed): combine_quantities is closed over the quantities
\* convert_to_unicode_fraction writes, mixed numbers included: the sum of two
\* of them is the rendering of their exact total (3 and one half plus one
\* half is 4), and folding three of them gives the rendering of the exact
\* total in whichever order they are taken.
C27_ClosedUnderRendering ==
    callOut # None =>
        LET q == callOut.converted
        IN /\ combine_quantities(q, OneHalf) = RenderedSum(<<q, OneHalf>>)
           /\ combine_quantities(OneHalf, q) = RenderedSum(<<q, OneHalf>>)
           /\ (q = <<"3", " ", "U+00BD">> => combine_quantities(q, OneHalf) = <<"4">>)
           /\ \A order \in {<<q, OneHalf, OneQuarter>>, <<OneHalf, q, OneQuarter>>,
                            <<OneHalf, OneQuarter, q>>, <<OneQuarter, OneHalf, q>>} :
                  Folded(order) = RenderedSum(<<q, OneHalf, OneQuarter>>)

(***************************************************************************)
(* The synonym table under normalize_raw_ingredient (SpecSyn).             *)
(***************************************************************************)
\* C29 (as claimed): every variation the table lists under a canonical name
\* normalizes to that canonical name ('large eggs' to 'eggs', 'dark brown
\* sugar' to 'brown sugar'), every canonical name normalizes to itself, and
\* normalizing a name that was not dropped a second time changes nothing.
C29_TableSelfConsistent ==
    callOut # None =>
        /\ (callIn.rule # 0 /\ callIn.form = "written") =>
              callOut.normalized = RAW_INGREDIENT_CONSOLIDATION[callIn.rule].name
        /\ callOut.normalized # NoValue =>
              normalize_raw_ingredient(callOut.normalized) = callOut.normalized

(***************************************************************************)
(* The confidence_threshold argument (SpecThr).                            *)
(***************************************************************************)
\* the confidence the collaborator gave the name of line k
ConfidenceOf(k) ==
    callIn.nlp[normalize_fractions_for_parsing(callIn.ingredients[k])].name.items[1].confidence

\* C30 (as claimed): for every threshold t, parse_ingredient_structured(line, t)
\* and parse_ingredients_list(lines, t) use the fallback exactly for the
\* lines whose parse confidence is below t, not below the module default.
C30_ThresholdGoverns ==
    callOut # None =>
        \A k \in 1..Len(callIn.ingredients) :
            LET below == ConfidenceOf(k) < callIn.confidence_threshold
                fallback(r) == /\ r.used_fallback
                               /\ r.raw_ingredient = strip(callIn.ingredients[k])
            IN /\ callOut.items[k] # None
               /\ callOut.items[k].used_fallback <=> below
               /\ (\E j \in 1..Len(callOut.list) : fallback(callOut.list[j])) <=> below

====
